---- MODULE Spec2Model ----
(***************************************************************************)
(* Model of the network-graph generator of docusaurus-plugin-network-graph *)
(* (networkGraphGenerator.ts): file discovery, node construction,          *)
(* parent-child inference, reference-link inference and graph assembly.    *)
(*                                                                         *)
(* Strings are sequences of one-character strings, so that the string      *)
(* operations of the source (split, replace, startsWith, endsWith,         *)
(* path.join, path.normalize) are computed character by character.         *)
(***************************************************************************)
EXTENDS Naturals, Sequences, FiniteSets, TLC

(***************************************************************************)
(* Bounds of the model.                                                    *)
(***************************************************************************)
\* Largest number of markdown files on disk.
MaxFiles == 3
\* Largest number of inline links the regex finds in one run, over all files.
MaxLinks == 2
\* Largest number of files whose read or parse throws during discovery.
MaxSkippedFiles == 1

(***************************************************************************)
(* JavaScript string operations.                                           *)
(***************************************************************************)
Last(s) == s[Len(s)]
Front(s) == SubSeq(s, 1, Len(s) - 1)

\* String.prototype.startsWith
StartsWith(s, p) == Len(p) <= Len(s) /\ SubSeq(s, 1, Len(p)) = p

\* String.prototype.endsWith
EndsWith(s, p) == Len(p) <= Len(s) /\ SubSeq(s, Len(s) - Len(p) + 1, Len(s)) = p

\* String.prototype.substring(n)
Substring(s, n) == SubSeq(s, n + 1, Len(s))

\* Index of the first occurrence of character c in s, 0 when there is none.
IndexOf(s, c) ==
  IF \E i \in 1..Len(s) : s[i] = c
  THEN CHOOSE i \in 1..Len(s) : s[i] = c /\ \A j \in 1..(i - 1) : s[j] # c
  ELSE 0

\* Index of the last occurrence of character c in s, 0 when there is none.
LastIndexOf(s, c) ==
  IF \E i \in 1..Len(s) : s[i] = c
  THEN CHOOSE i \in 1..Len(s) : s[i] = c /\ \A j \in (i + 1)..Len(s) : s[j] # c
  ELSE 0

\* String.prototype.split(c) for a one-character separator.
RECURSIVE Split(_, _)
Split(s, c) ==
  LET i == IndexOf(s, c)
  IN IF i = 0 THEN <<s>>
     ELSE <<SubSeq(s, 1, i - 1)>> \o Split(SubSeq(s, i + 1, Len(s)), c)

\* Array.prototype.join(c)
RECURSIVE Join(_, _)
Join(parts, c) ==
  IF Len(parts) = 0 THEN <<>>
  ELSE IF Len(parts) = 1 THEN parts[1]
  ELSE parts[1] \o <<c>> \o Join(Tail(parts), c)

\* Array.prototype.slice(0, -k)
SliceOff(parts, k) == SubSeq(parts, 1, Len(parts) - k)

(***************************************************************************)
(* String literals of the source.                                          *)
(***************************************************************************)
SLASH == "/"
S_md == <<".", "m", "d">>
S_mdx == <<".", "m", "d", "x">>
S_docs == <<"d", "o", "c", "s">>
S_blog == <<"b", "l", "o", "g">>
S_srcPages == <<"s", "r", "c", "/", "p", "a", "g", "e", "s">>
S_index == <<"i", "n", "d", "e", "x">>
S_README == <<"R", "E", "A", "D", "M", "E">>
S_http == <<"h", "t", "t", "p">>
S_mailto == <<"m", "a", "i", "l", "t", "o", ":">>
S_dot == <<".">>
S_dotdot == <<".", ".">>

(***************************************************************************)
(* Node's path module (POSIX).                                             *)
(***************************************************************************)
\* normalizeString(path, allowAboveRoot = true, '/'): resolves "." and ".."
\* segments; `acc` is the list of segments kept so far.
RECURSIVE NormalizeSegments(_, _)
NormalizeSegments(segs, acc) ==
  IF Len(segs) = 0 THEN acc
  ELSE LET seg == Head(segs)
           rest == Tail(segs)
       IN IF seg = <<>> \/ seg = S_dot THEN NormalizeSegments(rest, acc)
          ELSE IF seg = S_dotdot
          THEN IF Len(acc) > 0 /\ Last(acc) # S_dotdot
               THEN NormalizeSegments(rest, Front(acc))
               ELSE NormalizeSegments(rest, Append(acc, seg))
          ELSE NormalizeSegments(rest, Append(acc, seg))

\* path.normalize for a relative path.
PathNormalize(p) ==
  IF Len(p) = 0 THEN S_dot
  ELSE LET trailingSeparator == Last(p) = SLASH
           n == Join(NormalizeSegments(Split(p, SLASH), <<>>), SLASH)
       IN IF Len(n) = 0
          THEN (IF trailingSeparator THEN <<".", "/">> ELSE S_dot)
          ELSE IF trailingSeparator THEN n \o <<SLASH>> ELSE n

\* path.join(a, b): empty arguments are skipped, the rest joined and normalized.
PathJoin(a, b) ==
  IF Len(a) = 0 /\ Len(b) = 0 THEN S_dot
  ELSE IF Len(b) = 0 THEN PathNormalize(a)
  ELSE IF Len(a) = 0 THEN PathNormalize(b)
  ELSE PathNormalize(a \o <<SLASH>> \o b)

\* path.dirname for a relative file path that does not end in a slash.
PathDirname(p) ==
  LET i == LastIndexOf(p, SLASH)
  IN IF i = 0 THEN S_dot
     ELSE IF i = 1 THEN <<SLASH>>
     ELSE SubSeq(p, 1, i - 1)

(***************************************************************************)
(* createNodeFromFile: node type and URL path of a file.                   *)
(***************************************************************************)
\* filePath.startsWith('docs/') / filePath.startsWith('blog/')
NodeType(filePath) ==
  IF StartsWith(filePath, S_docs \o <<SLASH>>) THEN "doc"
  ELSE IF StartsWith(filePath, S_blog \o <<SLASH>>) THEN "blog"
  ELSE "page"

\* .replace(/\.(md|mdx)$/, '')
StripMarkdownExt(s) ==
  IF EndsWith(s, S_md) THEN SubSeq(s, 1, Len(s) - Len(S_md))
  ELSE IF EndsWith(s, S_mdx) THEN SubSeq(s, 1, Len(s) - Len(S_mdx))
  ELSE s

\* .replace(/\/index$/, '')
StripTrailingIndex(s) ==
  IF EndsWith(s, <<SLASH>> \o S_index)
  THEN SubSeq(s, 1, Len(s) - Len(S_index) - 1)
  ELSE s

\* The file name that repeats its folder name is dropped.
DropDuplicateFileName(urlPath) ==
  LET pathParts == Split(urlPath, SLASH)
  IN IF Len(pathParts) >= 2 /\ pathParts[Len(pathParts) - 1] = pathParts[Len(pathParts)]
     THEN Join(Front(pathParts), SLASH)
     ELSE urlPath

\* .replace(/^src\/pages/, '')
StripPagesPrefix(s) ==
  IF StartsWith(s, S_srcPages) THEN Substring(s, Len(S_srcPages)) ELSE s

\* .replace(/^docs\//, '')
StripDocsPrefix(s) ==
  IF StartsWith(s, S_docs \o <<SLASH>>) THEN Substring(s, Len(S_docs) + 1) ELSE s

UrlPath(filePath) ==
  LET urlPath == StripPagesPrefix(
                   DropDuplicateFileName(StripTrailingIndex(StripMarkdownExt(filePath))))
      type == NodeType(filePath)
  IN IF type = "doc" THEN <<SLASH>> \o S_docs \o <<SLASH>> \o StripDocsPrefix(urlPath)
     ELSE IF type = "blog" THEN <<SLASH>> \o urlPath
     ELSE IF Len(urlPath) = 0 THEN <<SLASH>> ELSE urlPath

\* A front-matter field that is not set.
Undefined == <<"undefined">>

\* JavaScript truthiness of a front-matter string field.
Truthy(v) == v # Undefined /\ v # <<>>

\* \s of a regular expression, and the characters `.` does not match.
IsWhitespace(c) == c \in {" ", "\t", "\n", "\r"}
IsLineTerminator(c) == c \in {"\n", "\r"}

\* The positions at which ^ matches under the m flag.
IsLineStart(s, p) == p = 1 \/ IsLineTerminator(s[p - 1])

\* The last position of the run of whitespace that starts at position p, p - 1 when
\* there is none.
RECURSIVE WhitespaceRunEnd(_, _)
WhitespaceRunEnd(s, p) ==
  IF p <= Len(s) /\ IsWhitespace(s[p]) THEN WhitespaceRunEnd(s, p + 1) ELSE p - 1

\* The last position of the line that holds position p.
RECURSIVE LineEnd(_, _)
LineEnd(s, p) ==
  IF p < Len(s) /\ ~IsLineTerminator(s[p + 1]) THEN LineEnd(s, p + 1) ELSE p

\* Where the group (.+) begins when /^#\s+(.+)$/m matches with its # at position p,
\* 0 when it does not match there: \s+ is greedy and gives characters back until
\* (.+) has a character to match.
H1GroupStart(s, p) ==
  IF ~(IsLineStart(s, p) /\ s[p] = "#") THEN 0
  ELSE LET e == WhitespaceRunEnd(s, p + 1)
           starts == {j \in (p + 2)..(e + 1) : j <= Len(s) /\ ~IsLineTerminator(s[j])}
       IN IF starts = {} THEN 0
          ELSE CHOOSE j \in starts : \A k \in starts : k <= j

\* content.match(/^#\s+(.+)$/m): group 1 of the first match, Undefined without one.
H1Match(content) ==
  LET hits == {p \in 1..Len(content) : H1GroupStart(content, p) # 0}
  IN IF hits = {} THEN Undefined
     ELSE LET p == CHOOSE q \in hits : \A r \in hits : q <= r
              j == H1GroupStart(content, p)
          IN SubSeq(content, j, LineEnd(content, j))

\* path.extname of a file path.
PathExtname(p) ==
  LET base == Last(Split(p, SLASH))
      dot == LastIndexOf(base, ".")
  IN IF dot > 1 THEN SubSeq(base, dot, Len(base)) ELSE <<>>

\* path.basename(p, ext)
PathBasename(p, ext) ==
  LET base == Last(Split(p, SLASH))
  IN IF Len(ext) > 0 /\ base # ext /\ EndsWith(base, ext)
     THEN SubSeq(base, 1, Len(base) - Len(ext))
     ELSE base

\* Lines 101-106: the title of the node.
ResolveTitle(filePath, frontmatter, content) ==
  IF Truthy(frontmatter.title) THEN frontmatter.title
  ELSE IF Truthy(frontmatter.sidebar_label) THEN frontmatter.sidebar_label
  ELSE IF H1Match(content) # Undefined THEN H1Match(content)
  ELSE PathBasename(filePath, PathExtname(filePath))

CreateNodeFromFile(filePath, frontmatter, content) ==
  [id |-> filePath, title |-> ResolveTitle(filePath, frontmatter, content),
   path |-> UrlPath(filePath), type |-> NodeType(filePath)]

(***************************************************************************)
(* The files a site may hold, and the glob patterns of the options.        *)
(***************************************************************************)
F_docsIndex == S_docs \o <<SLASH>> \o S_index \o S_md
F_hubMdx == S_docs \o <<"/", "t", "/", "t">> \o S_mdx
F_hubMd == S_docs \o <<"/", "t", "/", "t">> \o S_md
F_http == S_docs \o <<"/", "t", "/">> \o S_http \o S_md
F_dirIndex == S_docs \o <<"/", "t", "/">> \o S_index \o S_mdx
F_dirReadme == S_docs \o <<"/", "t", "/">> \o S_README \o S_mdx
F_deepHub == S_docs \o <<"/", "t", "/", "u", "/", "u">> \o S_mdx
F_deep == S_docs \o <<"/", "t", "/", "u", "/", "v">> \o S_md
F_home == S_srcPages \o <<SLASH>> \o S_index \o S_md
F_note == <<"n", "/", "n">> \o S_md

\* Directory listing order of the site.
FileUniverse ==
  <<F_docsIndex, F_hubMdx, F_hubMd, F_http, F_dirIndex, F_dirReadme,
    F_deepHub, F_deep, F_home, F_note>>

\* Front-matter values and bodies of the files.
S_Alpha == <<"A", "l", "p", "h", "a">>
S_Label == <<"L", "a", "b">>
NoFrontMatter == [title |-> Undefined, sidebar_label |-> Undefined]
B_beta == <<"#", " ", "B", "e", "t", "a">>
B_textThenBeta == <<"x", "\n", "#", " ", "B", "e", "t", "a", "\n", "#", " ", "C">>
B_text == <<"x">>
B_level2 == <<"#", "#", " ", "B">>
B_emptyHeading == <<"#", "\n", "\n", "x">>
B_noSpace == <<"#", "B">>

\* matter(content).data of each file: the front-matter fields the generator reads.
FrontMatterOf(file) ==
  CASE file = F_docsIndex -> [title |-> S_Alpha, sidebar_label |-> Undefined]
    [] file = F_hubMdx -> [title |-> Undefined, sidebar_label |-> S_Label]
    [] file = F_hubMd -> [title |-> <<>>, sidebar_label |-> S_Label]
    [] file = F_dirReadme -> [title |-> S_Alpha, sidebar_label |-> S_Label]
    [] file = F_note -> [title |-> <<>>, sidebar_label |-> <<>>]
    [] OTHER -> NoFrontMatter

\* matter(content).content of each file, up to its first inline link.
BodyOf(file) ==
  CASE file = F_docsIndex -> B_beta
    [] file = F_hubMdx -> B_beta
    [] file = F_http -> B_beta
    [] file = F_dirIndex -> B_textThenBeta
    [] file = F_deepHub -> B_level2
    [] file = F_home -> B_emptyHeading
    [] file = F_note -> B_noSpace
    [] OTHER -> B_text

\* A glob pattern <dir>/**/*.{exts}: any file below dir with one of the extensions.
\* dir = <<>> stands for the site root.
Pattern(dir, exts) == [dir |-> dir, exts |-> exts]

GlobMatches(pattern, file) ==
  /\ pattern.dir = <<>> \/ StartsWith(file, pattern.dir \o <<SLASH>>)
  /\ \E e \in pattern.exts : EndsWith(file, e)

RECURSIVE SelectSeq2(_, _, _)
\* The subsequence of s that matches pattern and none of the ignore patterns.
SelectSeq2(s, pattern, ignore) ==
  IF Len(s) = 0 THEN <<>>
  ELSE LET keep == /\ GlobMatches(pattern, Head(s))
                   /\ \A i \in 1..Len(ignore) : ~GlobMatches(ignore[i], Head(s))
       IN (IF keep THEN <<Head(s)>> ELSE <<>>) \o SelectSeq2(Tail(s), pattern, ignore)

\* glob(pattern, {cwd: siteDir, ignore: excludePatterns})
Glob(files, pattern, ignore) == SelectSeq2(files, pattern, ignore)

P_docs == Pattern(S_docs, {S_md, S_mdx})
P_blog == Pattern(S_blog, {S_md, S_mdx})
P_pages == Pattern(S_srcPages, {S_md, S_mdx})
\* Custom patterns of the configuration: docs/t/u/**/*.md, n/**/*.md, docs/t/u/**.
P_deepMd == Pattern(S_docs \o <<"/", "t", "/", "u">>, {S_md})
P_notes == Pattern(<<"n">>, {S_md})
P_deepDir == Pattern(S_docs \o <<"/", "t", "/", "u">>, {S_md, S_mdx})

\* Lines 11-18: the defaults of the options.
DefaultOptions ==
  [includeBlog |-> TRUE, includeDocs |-> TRUE, includePages |-> TRUE,
   includePatterns |-> <<>>, excludePatterns |-> <<>>, maxDepth |-> 10]

NoRoots == [DefaultOptions EXCEPT !.includeBlog = FALSE, !.includeDocs = FALSE,
                                  !.includePages = FALSE]

\* The configurations of a run.
OptionChoices ==
  { DefaultOptions,
    NoRoots,
    [DefaultOptions EXCEPT !.includePatterns = <<P_notes, P_deepMd>>, !.maxDepth = 1],
    [NoRoots EXCEPT !.includePatterns = <<P_notes, P_deepMd>>],
    [DefaultOptions EXCEPT !.includeBlog = FALSE, !.excludePatterns = <<P_deepDir>>] }

\* The search patterns of lines 24-41.
SearchPatterns(o) ==
  (IF o.includeDocs THEN <<P_docs>> ELSE <<>>)
    \o (IF o.includeBlog THEN <<P_blog>> ELSE <<>>)
    \o (IF o.includePages THEN <<P_pages>> ELSE <<>>)
    \o o.includePatterns

(***************************************************************************)
(* Edges.  Strengths are in tenths (0.8, 0.6, 0.5).                        *)
(***************************************************************************)
StrengthSameDir == 8
StrengthHierarchical == 6
StrengthReference == 5

Link(source, target, type, strength) ==
  [source |-> source, target |-> target, type |-> type, strength |-> strength]

\* Mutant of FindOtherNode: the candidate path is taken as the parent without
\* looking it up among the nodes.
FindOtherNodeUnchecked(nodes, id, selfId) == id # selfId

\* nodes.find(n => n.id === id && n.id !== selfId): only the id of the node
\* found is used, so the operator answers whether there is one.
FindOtherNode(nodes, id, selfId) ==
  id # selfId /\ \E i \in 1..Len(nodes) : nodes[i].id = id

\* links.find(l => (l.source === a && l.target === b) || (l.source === b && l.target === a))
ExistingLinkEitherWay(links, a, b) ==
  \E i \in 1..Len(links) :
    \/ links[i].source = a /\ links[i].target = b
    \/ links[i].source = b /\ links[i].target = a

\* Case 1 of generateParentChildLinks: the file named after its directory.
SameDirParentLink(nodes, links, node) ==
  LET pathParts == Split(node.id, SLASH)
      directory == Join(SliceOff(pathParts, 1), SLASH)
      directoryName == pathParts[Len(pathParts) - 1]
      potentialParentInSameDir == directory \o <<SLASH>> \o directoryName \o S_mdx
  IN IF /\ FindOtherNode(nodes, potentialParentInSameDir, node.id)
        /\ ~ExistingLinkEitherWay(links, potentialParentInSameDir, node.id)
     THEN Append(links, Link(potentialParentInSameDir, node.id, "parent-child",
                             StrengthSameDir))
     ELSE links

\* The candidates of case 2, in the order of the source.
PotentialParents(pathParts) ==
  LET parentDirectory == Join(SliceOff(pathParts, 2), SLASH)
      parentDirName == pathParts[Len(pathParts) - 2]
  IN << parentDirectory \o <<SLASH>> \o parentDirName \o S_mdx,
        parentDirectory \o <<SLASH>> \o S_index \o S_mdx,
        parentDirectory \o <<SLASH>> \o S_README \o S_mdx >>

\* The loop over the candidates: the first candidate that is a node and has no
\* link with this node yet gets the link, and the loop breaks.
RECURSIVE HierarchicalParentLink(_, _, _, _)
HierarchicalParentLink(nodes, links, node, candidates) ==
  IF Len(candidates) = 0 THEN links
  ELSE LET potentialParent == Head(candidates)
       IN IF /\ FindOtherNode(nodes, potentialParent, node.id)
             /\ ~ExistingLinkEitherWay(links, potentialParent, node.id)
          THEN Append(links, Link(potentialParent, node.id, "parent-child",
                                  StrengthHierarchical))
          ELSE HierarchicalParentLink(nodes, links, node, Tail(candidates))

\* Mutant of ParentChildLinksOfNode: case 2 is an else branch of case 1, so a link
\* pushed by case 1 suppresses the search of the parent directory.
ParentChildLinksOfNodeExclusive(nodes, links, node) ==
  LET pathParts == Split(node.id, SLASH)
  IN IF Len(pathParts) > 1
     THEN LET afterCase1 == SameDirParentLink(nodes, links, node)
          IN IF Len(pathParts) > 2 /\ afterCase1 = links
             THEN HierarchicalParentLink(nodes, afterCase1, node,
                                         PotentialParents(pathParts))
             ELSE afterCase1
     ELSE links

\* The body of nodes.forEach in generateParentChildLinks.
ParentChildLinksOfNode(nodes, links, node) ==
  LET pathParts == Split(node.id, SLASH)
  IN IF Len(pathParts) > 1
     THEN LET afterCase1 == SameDirParentLink(nodes, links, node)
          IN IF Len(pathParts) > 2
             THEN HierarchicalParentLink(nodes, afterCase1, node,
                                         PotentialParents(pathParts))
             ELSE afterCase1
     ELSE links

\* nodes.forEach(...) from node i on.
RECURSIVE ForEachNodeFrom(_, _, _)
ForEachNodeFrom(nodes, links, i) ==
  IF i > Len(nodes) THEN links
  ELSE ForEachNodeFrom(nodes, ParentChildLinksOfNode(nodes, links, nodes[i]), i + 1)

\* generateParentChildLinks(nodes, links, maxDepth): maxDepth is not read.
GenerateParentChildLinks(nodes, links, maxDepth) == ForEachNodeFrom(nodes, links, 1)

(***************************************************************************)
(* Reference links.                                                        *)
(***************************************************************************)
\* linkPath.startsWith('http') || linkPath.startsWith('mailto:')
IsExternalLink(linkPath) ==
  StartsWith(linkPath, S_http) \/ StartsWith(linkPath, S_mailto)

\* linkPath.split('#')[0].split('?')[0]
CleanLinkPath(linkPath) == Split(Split(linkPath, "#")[1], "?")[1]

ResolveLinkPath(currentFilePath, linkPath) ==
  LET cleanLinkPath == CleanLinkPath(linkPath)
  IN IF StartsWith(cleanLinkPath, <<SLASH>>)
     THEN Substring(cleanLinkPath, 1)
     ELSE PathNormalize(PathJoin(PathDirname(currentFilePath), cleanLinkPath))

NoNode == [id |-> <<>>, title |-> <<>>, path |-> <<>>, type |-> "none"]

\* fileMap.get(key): fileMap is the sequence of the map's values in insertion order.
MapGet(fileMap, key) ==
  IF \E i \in 1..Len(fileMap) : fileMap[i].id = key
  THEN fileMap[CHOOSE i \in 1..Len(fileMap) : fileMap[i].id = key]
  ELSE NoNode

\* fileMap.set(key, node): a key already present keeps its place.
MapSet(fileMap, node) ==
  IF \E i \in 1..Len(fileMap) : fileMap[i].id = node.id
  THEN [i \in 1..Len(fileMap) |-> IF fileMap[i].id = node.id THEN node ELSE fileMap[i]]
  ELSE Append(fileMap, node)

\* Mutant of CandidateIds: the .mdx form is tried before the .md form.
CandidateIdsMdxFirst(resolvedPath) ==
  << resolvedPath,
     resolvedPath \o S_mdx,
     resolvedPath \o S_md,
     resolvedPath \o <<SLASH>> \o S_index \o S_md,
     resolvedPath \o <<SLASH>> \o S_index \o S_mdx >>

\* The candidate keys of findTargetNode, in the order tried.
CandidateIds(resolvedPath) ==
  << resolvedPath,
     resolvedPath \o S_md,
     resolvedPath \o S_mdx,
     resolvedPath \o <<SLASH>> \o S_index \o S_md,
     resolvedPath \o <<SLASH>> \o S_index \o S_mdx >>

\* The predicate of the final Array.find over the map's values.
UrlPathMatches(node, resolvedPath) ==
  \/ node.path = <<SLASH>> \o resolvedPath
  \/ node.path = resolvedPath
  \/ EndsWith(node.path, resolvedPath)

\* Array.from(fileMap.values()).find(...): the first value that matches.
RECURSIVE FindByUrlPath(_, _)
FindByUrlPath(fileMap, resolvedPath) ==
  IF Len(fileMap) = 0 THEN NoNode
  ELSE IF UrlPathMatches(Head(fileMap), resolvedPath) THEN Head(fileMap)
  ELSE FindByUrlPath(Tail(fileMap), resolvedPath)

RECURSIVE FirstCandidate(_, _)
FirstCandidate(fileMap, candidates) ==
  IF Len(candidates) = 0 THEN NoNode
  ELSE LET targetNode == MapGet(fileMap, Head(candidates))
       IN IF targetNode # NoNode THEN targetNode
          ELSE FirstCandidate(fileMap, Tail(candidates))

FindTargetNode(resolvedPath, fileMap) ==
  LET targetNode == FirstCandidate(fileMap, CandidateIds(resolvedPath))
  IN IF targetNode # NoNode THEN targetNode
     ELSE FindByUrlPath(fileMap, resolvedPath)

\* Mutant of ExistingReferenceLink: the type compared is the wrong one.
ExistingReferenceLinkWrongType(links, s, t) ==
  \E i \in 1..Len(links) :
    links[i].source = s /\ links[i].target = t /\ links[i].type = "parent-child"

\* Mutant of ExistingReferenceLink: the pair is unordered and the type is not compared,
\* as in the check of the parent-child links.
ExistingReferenceLinkUnordered(links, s, t) == ExistingLinkEitherWay(links, s, t)

\* links.find(l => l.source === s && l.target === t && l.type === 'reference')
ExistingReferenceLink(links, s, t) ==
  \E i \in 1..Len(links) :
    links[i].source = s /\ links[i].target = t /\ links[i].type = "reference"

\* Mutant of IsLinkableTarget: the comparison with the source node is missing.
IsLinkableTargetNoSelfCheck(targetNode, node) == targetNode # NoNode

\* targetNode && targetNode.id !== node.id
IsLinkableTarget(targetNode, node) == targetNode # NoNode /\ targetNode.id # node.id

\* Which branch of the loop body (lines 243-268) a match takes, targetNode being
\* what findTargetNode returns for the resolved link.
MatchOutcome(links, node, targetNode, linkPath) ==
  IF IsExternalLink(linkPath) THEN "external"
  ELSE IF targetNode = NoNode THEN "miss"
  ELSE IF ~IsLinkableTarget(targetNode, node) THEN "self"
  ELSE IF ExistingReferenceLink(links, node.id, targetNode.id) THEN "duplicate"
  ELSE "added"

\* Mutant of LinksAfterMatch: links are kept unique per pair of ids, so the
\* reference edge takes the place of a link that joins the two ids already.
LinksAfterMatchReplacingPair(links, node, targetNode, outcome) ==
  IF outcome = "added"
  THEN Append(SelectSeq(links, LAMBDA l :
                ~(\/ l.source = node.id /\ l.target = targetNode.id
                  \/ l.source = targetNode.id /\ l.target = node.id)),
              Link(node.id, targetNode.id, "reference", StrengthReference))
  ELSE links

\* Mutant of LinksAfterMatch: the push is not guarded by the existingLink check.
LinksAfterMatchUnchecked(links, node, targetNode, outcome) ==
  IF outcome \in {"added", "duplicate"}
  THEN Append(links, Link(node.id, targetNode.id, "reference", StrengthReference))
  ELSE links

\* Lines 261-266: links.push of the reference link, in the one branch that has it.
LinksAfterMatch(links, node, targetNode, outcome) ==
  IF outcome = "added"
  THEN Append(links, Link(node.id, targetNode.id, "reference", StrengthReference))
  ELSE links

(***************************************************************************)
(* Link targets found in file bodies by /\[([^\]]+)\]\(([^)]+)\)/g.        *)
(***************************************************************************)
T_sibling == <<".", "/">> \o S_http \o S_md
T_rootTop == <<"/", "#", "t", "o", "p">>
T_https == S_http \o <<"s", ":", "/", "/", "x">>
T_httpFile == S_http \o S_md
T_mailto == S_mailto \o <<"a">>
T_hubNoExt == <<"t", "?", "q">>
T_missing == <<"z">>
T_urlPath == <<SLASH>> \o S_docs \o <<"/", "t">>

LinkTargets ==
  {T_sibling, T_rootTop, T_https, T_httpFile, T_mailto, T_hubNoExt,
   T_missing, T_urlPath}

\* resolveLinkPath(node.id, linkPath) for every file and link target, tabulated.
ResolvedLinks ==
  [i \in 1..Len(FileUniverse) |->
     [linkPath \in LinkTargets |-> ResolveLinkPath(FileUniverse[i], linkPath)]]

IndexOfFile(id) == CHOOSE i \in 1..Len(FileUniverse) : FileUniverse[i] = id

\* Lines 60-63 for every file, tabulated: the file read, its front matter parsed
\* and its node created.
NodesOfFiles ==
  [i \in 1..Len(FileUniverse) |->
     CreateNodeFromFile(FileUniverse[i], FrontMatterOf(FileUniverse[i]),
                        BodyOf(FileUniverse[i]))]

\* Lines 251-252: resolveLinkPath, then findTargetNode.
TargetOfLink(node, fileMap, linkPath) ==
  FindTargetNode(ResolvedLinks[IndexOfFile(node.id)][linkPath], fileMap)

(***************************************************************************)
(* NetworkGraphEmbed.tsx: the graph shown on a page.                       *)
(***************************************************************************)
\* The bound on the location changes of one mounted component.
MaxNavigations == 2

\* null, for the state and the locals that hold a graph, and for those that hold
\* an error.
NoData == [isNull |-> TRUE]
NoError == "null"

\* String.prototype.includes.
Includes(s, sub) ==
  \E i \in 1..(Len(s) + 1) :
    /\ i + Len(sub) - 1 <= Len(s)
    /\ SubSeq(s, i, i + Len(sub) - 1) = sub

\* currentPath.replace(/\/$/, '').
StripTrailingSlash(p) == IF EndsWith(p, <<SLASH>>) THEN Front(p) ELSE p

\* Lines 80-82: the callback of find.
MatchesCurrentPath(node, currentPath) ==
  \/ node.path = currentPath
  \/ node.path = StripTrailingSlash(currentPath)
  \/ Includes(currentPath, node.path)

\* Lines 79-83: Array.prototype.find, NoNode for undefined.
RECURSIVE FindCurrentNode(_, _, _)
FindCurrentNode(ns, currentPath, i) ==
  IF i > Len(ns) THEN NoNode
  ELSE IF MatchesCurrentPath(ns[i], currentPath) THEN ns[i]
  ELSE FindCurrentNode(ns, currentPath, i + 1)

\* Mutant of EmptyFiltered: the counts of the full graph's metadata are spread
\* into the result and not overridden.
EmptyFilteredStaleCounts(fullData) ==
  [nodes |-> <<>>, links |-> <<>>, metadata |-> fullData.metadata]

\* Lines 87-95: the graph returned when no node is the current page.
EmptyFiltered(fullData) ==
  [nodes |-> <<>>, links |-> <<>>,
   metadata |-> [fullData.metadata EXCEPT !.totalNodes = 0, !.totalLinks = 0]]

\* Lines 99-111: the Set built by the forEach over the links.
ConnectedNodeIds(ls, currentId) ==
  {currentId}
    \cup {ls[i].target : i \in {k \in 1..Len(ls) : ls[k].source = currentId}}
    \cup {ls[i].source : i \in {k \in 1..Len(ls) : ls[k].target = currentId}}

\* Line 114: Array.prototype.filter over the nodes.
RECURSIVE FilterNodes(_, _, _)
FilterNodes(ns, ids, i) ==
  IF i > Len(ns) THEN <<>>
  ELSE (IF ns[i].id \in ids THEN <<ns[i]>> ELSE <<>>) \o FilterNodes(ns, ids, i + 1)

\* Mutant of KeepsLink: one endpoint in the set is enough.
KeepsLinkEitherEnd(link, ids) == link.source \in ids \/ link.target \in ids

\* Line 120: the callback of the filter over the links.
KeepsLink(link, ids) == link.source \in ids /\ link.target \in ids

\* Lines 117-121: Array.prototype.filter over the links.
RECURSIVE FilterLinks(_, _, _)
FilterLinks(ls, ids, i) ==
  IF i > Len(ls) THEN <<>>
  ELSE (IF KeepsLink(ls[i], ids) THEN <<ls[i]>> ELSE <<>>) \o FilterLinks(ls, ids, i + 1)

\* Lines 75-132.
FilterDataForCurrentPage(fullData, currentPath) ==
  LET currentNode == FindCurrentNode(fullData.nodes, currentPath, 1)
  IN IF currentNode = NoNode THEN EmptyFiltered(fullData)
     ELSE LET connectedNodeIds == ConnectedNodeIds(fullData.links, currentNode.id)
              filteredNodes == FilterNodes(fullData.nodes, connectedNodeIds, 1)
              filteredLinks == FilterLinks(fullData.links, connectedNodeIds, 1)
          IN [nodes |-> filteredNodes, links |-> filteredLinks,
              metadata |-> [fullData.metadata EXCEPT !.totalNodes = Len(filteredNodes),
                                                     !.totalLinks = Len(filteredLinks)]]

\* Lines 139-142 (generator.ts 341-344): the candidate URLs of total-graph.json.
PossiblePaths == <<"/total-graph.json",
                   "/.docusaurus/docusaurus-plugin-network-graph/default/total-graph.json">>

\* Lines 166 and generator.ts 367: the message handed to setError.
ErrorMessage(comp) ==
  IF comp = "NetworkGraphEmbed" THEN "Failed to load network graph data"
  ELSE "Failed to load network graph data. Make sure the plugin is properly configured and the site has been built."

\* Lines 168-175 (generator.ts 369-376): the fallback graph (generatedAt is left out).
FallbackData == [nodes |-> <<>>, links |-> <<>>, metadata |-> [totalNodes |-> 0, totalLinks |-> 0]]

\* The graphs total-graph.json may hold.
NodeOf(file) == NodesOfFiles[IndexOfFile(file)]

GraphOf(ns, ls) ==
  [nodes |-> ns, links |-> ls, metadata |-> [totalNodes |-> Len(ns), totalLinks |-> Len(ls)]]

L_hubToHttp == Link(F_hubMdx, F_http, "parent-child", StrengthSameDir)
L_httpToDeep == Link(F_http, F_deep, "reference", StrengthReference)
L_deepToHttp == Link(F_deep, F_http, "reference", StrengthReference)
L_hubToDeep == Link(F_hubMdx, F_deep, "parent-child", StrengthHierarchical)

G_chain == GraphOf(<<NodeOf(F_deep), NodeOf(F_http), NodeOf(F_hubMdx)>>,
                   <<L_hubToHttp, L_httpToDeep>>)
G_hubFirst == GraphOf(<<NodeOf(F_hubMdx), NodeOf(F_http), NodeOf(F_deep)>>,
                      <<L_hubToHttp, L_httpToDeep, L_deepToHttp>>)
G_triangle == GraphOf(<<NodeOf(F_deep), NodeOf(F_http), NodeOf(F_hubMdx), NodeOf(F_note)>>,
                      <<L_hubToHttp, L_hubToDeep, L_httpToDeep>>)
G_home == GraphOf(<<NodeOf(F_home), NodeOf(F_http)>>, <<>>)
G_none == GraphOf(<<>>, <<>>)

GraphChoices == {G_chain, G_hubFirst, G_triangle, G_home, G_none}

\* What one fetch of a candidate URL comes to: fetch rejects, the response is not
\* ok, response.json() rejects, or it resolves to the parsed JSON (null or a graph).
FetchFailures == {"fetch rejects", "not ok", "json rejects"}

FetchOutcomes ==
  [kind : FetchFailures, json : {NoData}]
    \cup [kind : {"json"}, json : {NoData} \cup GraphChoices]

\* The pathnames the router may be at.
Pathnames ==
  {NodeOf(F_hubMdx).path, NodeOf(F_http).path, NodeOf(F_http).path \o <<SLASH>>,
   NodeOf(F_deep).path, <<SLASH>>, <<SLASH, "z">>}

(***************************************************************************)
(* State of one run of generateNetworkGraph.                               *)
(***************************************************************************)
VARIABLES
  siteFiles,       \* the markdown files under siteDir, in listing order
  options,         \* the PluginOptions of the run
  pc,              \* position in generateNetworkGraph
  searchPatterns,  \* const searchPatterns
  patIdx,          \* index of the next pattern to glob
  allFiles,        \* const allFiles
  fileIdx,         \* index of the next file of allFiles to process
  nodes,           \* const nodes
  fileMap,         \* const fileMap (values in insertion order)
  links,           \* const links
  nodeIdx,         \* index of the node generateReferenceLinks is at
  lastMatch,       \* what the last regex match in the node's body led to ("none": no match yet)
  matchCount,      \* matches of the regex consumed so far in the run
  failures,        \* files skipped by the catch of the discovery loop
  result           \* the value the promise resolves to

\* State of one mounted loading component: NetworkGraphEmbed, or the
\* NetworkGraphLoader of networkGraphGenerator.ts.
VARIABLES
  component,       \* which of the two components is mounted ("none": neither)
  location,        \* useLocation().pathname
  navigations,     \* location changes so far
  loadPc,          \* position in loadGraphData
  pathIdx,         \* index in possiblePaths of the next URL to fetch
  graphData,       \* let graphData
  lastError,       \* let lastError
  fetched,         \* what the fetches so far came to, in order
  data,            \* useState data
  loading,         \* useState loading
  error,           \* useState error
  filteredData,    \* useState filteredData
  filterDue        \* the effect on [data, location.pathname] is scheduled

\* State that spans the calls of generateNetworkGraph on one site.
VARIABLES
  environment,     \* what the file system answers to the reads of a call
  run,             \* the number of the call of generateNetworkGraph under way
  firstResult,     \* the value the first call resolved to
  other            \* the arguments and locals of a second call in flight, suspended at an await

\* State of one mounted NetworkGraph (NetworkGraph.tsx).
VARIABLES
  onNodeClick,     \* the prop onNodeClick: "given" or "none"
  clickTimeout,    \* useState clickTimeout (0: null)
  closureTimeout,  \* clickTimeout as the handlers and the cleanup of the last effect run see it
  timers,          \* the timeouts set and neither cleared nor fired, each with its node
  events,          \* what has happened to the component, in order
  effects          \* what the handlers have done, in order

generatorVars ==
  <<siteFiles, options, pc, searchPatterns, patIdx, allFiles, fileIdx, nodes,
    fileMap, links, nodeIdx, lastMatch, matchCount, failures, result>>

loaderVars ==
  <<component, location, navigations, loadPc, pathIdx, graphData, lastError, fetched,
    data, loading, error, filteredData, filterDue>>

callVars == <<environment, run, firstResult, other>>

graphVars == <<onNodeClick, clickTimeout, closureTimeout, timers, events, effects>>

vars ==
  <<siteFiles, options, pc, searchPatterns, patIdx, allFiles, fileIdx, nodes,
    fileMap, links, nodeIdx, lastMatch, matchCount, failures, result,
    component, location, navigations, loadPc, pathIdx, graphData, lastError, fetched,
    data, loading, error, filteredData, filterDue, environment, run, firstResult, other,
    onNodeClick, clickTimeout, closureTimeout, timers, events, effects>>

NoResult == [nodes |-> <<>>, links |-> <<>>, metadata |-> [totalNodes |-> 0, totalLinks |-> 0],
             returned |-> FALSE]

\* Lines 68-73 (generator.ts 332-334): the state of a component at its first render.
FirstRender ==
  /\ navigations = 0
  /\ loadPc = "mount"
  /\ pathIdx = 1
  /\ graphData = NoData
  /\ lastError = NoError
  /\ fetched = <<>>
  /\ data = NoData
  /\ loading = TRUE
  /\ error = NoError
  /\ filteredData = NoData
  /\ filterDue = TRUE

\* NetworkGraph.tsx lines 19-21 and 23-348: the component after its first effect
\* has run, before any event.
GraphAtRest ==
  /\ clickTimeout = 0
  /\ closureTimeout = 0
  /\ timers = {}
  /\ events = <<>>
  /\ effects = <<>>

\* No component is mounted: the build, where only the plugin runs.
NotMounted ==
  /\ component = "none" /\ location = <<SLASH>> /\ FirstRender
  /\ onNodeClick = "none" /\ GraphAtRest

\* The reads of a call are not tied to those of another call.
NoEnvironment == [failAt |-> [phase |-> "none", at |-> 0], matchNode |-> 0, script |-> <<>>]

\* Lines 7-25 and 46: a call that has not taken a step, with its arguments and
\* the answers of its file system.
SuspendedCall(name, site, opts, env) ==
  [call |-> name, siteFiles |-> site, options |-> opts, environment |-> env,
   pc |-> "start", searchPatterns |-> <<>>, patIdx |-> 1, allFiles |-> <<>>,
   fileIdx |-> 1, nodes |-> <<>>, fileMap |-> <<>>, links |-> <<>>, nodeIdx |-> 1,
   lastMatch |-> "none", matchCount |-> 0, failures |-> 0, result |-> NoResult]

\* No second call is in flight.
NoOtherCall == [call |-> "none"]

\* One call of generateNetworkGraph, its reads answered freely.
SingleCall ==
  environment = NoEnvironment /\ run = 1 /\ firstResult = NoResult /\ other = NoOtherCall

\* The files of the universe at the indices in S, in listing order.
RECURSIVE FilesAt(_, _)
FilesAt(S, i) ==
  IF i > Len(FileUniverse) THEN <<>>
  ELSE (IF i \in S THEN <<FileUniverse[i]>> ELSE <<>>) \o FilesAt(S, i + 1)

SiteChoices ==
  {FilesAt(S, 1) : S \in {X \in SUBSET (1..Len(FileUniverse)) : Cardinality(X) <= MaxFiles}}

Init ==
  /\ siteFiles \in SiteChoices
  /\ options \in OptionChoices
  /\ pc = "start"
  /\ searchPatterns = <<>>
  /\ patIdx = 1
  /\ allFiles = <<>>
  /\ fileIdx = 1
  /\ nodes = <<>>
  /\ fileMap = <<>>
  /\ links = <<>>
  /\ nodeIdx = 1
  /\ lastMatch = "none"
  /\ matchCount = 0
  /\ failures = 0
  /\ result = NoResult
  /\ NotMounted
  /\ SingleCall

\* Lines 24-43: the search patterns of the options.
BuildSearchPatterns ==
  /\ pc = "start"
  /\ searchPatterns' = SearchPatterns(options)
  /\ pc' = "glob"
  /\ UNCHANGED <<siteFiles, options, patIdx, allFiles, fileIdx, nodes, fileMap, links,
                 nodeIdx, lastMatch, matchCount, failures, result>>
  /\ UNCHANGED loaderVars
  /\ UNCHANGED graphVars
  /\ UNCHANGED callVars

\* Lines 47-53: one iteration of the loop over the patterns.
GlobPattern ==
  /\ pc = "glob"
  /\ patIdx <= Len(searchPatterns)
  /\ allFiles' = allFiles \o Glob(siteFiles, searchPatterns[patIdx], options.excludePatterns)
  /\ patIdx' = patIdx + 1
  /\ UNCHANGED <<siteFiles, options, pc, searchPatterns, fileIdx, nodes, fileMap, links,
                 nodeIdx, lastMatch, matchCount, failures, result>>
  /\ UNCHANGED loaderVars
  /\ UNCHANGED graphVars
  /\ UNCHANGED callVars

\* Mutant of ProcessFile: the parent-child links of the node are inferred as soon
\* as the node is built, from the nodes known so far.
ProcessFileLinkingEagerly ==
  /\ pc = "glob"
  /\ patIdx > Len(searchPatterns)
  /\ fileIdx <= Len(allFiles)
  /\ LET node == NodesOfFiles[IndexOfFile(allFiles[fileIdx])]
     IN /\ nodes' = Append(nodes, node)
        /\ fileMap' = MapSet(fileMap, node)
        /\ links' = ParentChildLinksOfNode(Append(nodes, node), links, node)
  /\ fileIdx' = fileIdx + 1
  /\ UNCHANGED <<siteFiles, options, pc, searchPatterns, patIdx, allFiles,
                 nodeIdx, lastMatch, matchCount, failures, result>>
  /\ UNCHANGED loaderVars
  /\ UNCHANGED graphVars
  /\ UNCHANGED callVars

\* Lines 56-65: one iteration of the loop over allFiles, the file read and parsed.
ProcessFile ==
  /\ pc = "glob"
  /\ patIdx > Len(searchPatterns)
  /\ fileIdx <= Len(allFiles)
  /\ LET node == NodesOfFiles[IndexOfFile(allFiles[fileIdx])]
     IN /\ nodes' = Append(nodes, node)
        /\ fileMap' = MapSet(fileMap, node)
  /\ fileIdx' = fileIdx + 1
  /\ UNCHANGED <<siteFiles, options, pc, searchPatterns, patIdx, allFiles, links,
                 nodeIdx, lastMatch, matchCount, failures, result>>
  /\ UNCHANGED loaderVars
  /\ UNCHANGED graphVars
  /\ UNCHANGED callVars

\* Mutant of ProcessFileFails: the loop body has no try/catch, so the exception
\* rejects the promise of generateNetworkGraph.
ProcessFileFailsUncaught ==
  /\ pc = "glob"
  /\ patIdx > Len(searchPatterns)
  /\ fileIdx <= Len(allFiles)
  /\ failures < MaxSkippedFiles
  /\ failures' = failures + 1
  /\ pc' = "rejected"
  /\ UNCHANGED <<siteFiles, options, searchPatterns, patIdx, allFiles, fileIdx, nodes,
                 fileMap, links, nodeIdx, lastMatch, matchCount, result>>
  /\ UNCHANGED loaderVars
  /\ UNCHANGED graphVars
  /\ UNCHANGED callVars

\* Lines 66-68: readFile or matter threw; the file is skipped.
ProcessFileFails ==
  /\ pc = "glob"
  /\ patIdx > Len(searchPatterns)
  /\ fileIdx <= Len(allFiles)
  /\ failures < MaxSkippedFiles
  /\ failures' = failures + 1
  /\ fileIdx' = fileIdx + 1
  /\ UNCHANGED <<siteFiles, options, pc, searchPatterns, patIdx, allFiles, nodes, fileMap,
                 links, nodeIdx, lastMatch, matchCount, result>>
  /\ UNCHANGED loaderVars
  /\ UNCHANGED graphVars
  /\ UNCHANGED callVars

\* Line 72: generateParentChildLinks, synchronous.
ParentChildPass ==
  /\ pc = "glob"
  /\ patIdx > Len(searchPatterns)
  /\ fileIdx > Len(allFiles)
  /\ links' = GenerateParentChildLinks(nodes, links, options.maxDepth)
  /\ pc' = "refs"
  /\ UNCHANGED <<siteFiles, options, searchPatterns, patIdx, allFiles, fileIdx, nodes,
                 fileMap, nodeIdx, lastMatch, matchCount, failures, result>>
  /\ UNCHANGED loaderVars
  /\ UNCHANGED graphVars
  /\ UNCHANGED callVars

\* Lines 236-239 and 270-272: readFile or matter throws before the regex loop; the
\* catch logs it and the loop over the nodes goes on.
ReadNodeFileFails ==
  /\ pc = "refs"
  /\ nodeIdx <= Len(nodes)
  /\ lastMatch = "none"
  /\ nodeIdx' = nodeIdx + 1
  /\ UNCHANGED <<siteFiles, options, pc, searchPatterns, patIdx, allFiles, fileIdx, nodes,
                 fileMap, links, lastMatch, matchCount, failures, result>>
  /\ UNCHANGED loaderVars
  /\ UNCHANGED graphVars
  /\ UNCHANGED callVars

\* Lines 236-268: the regex finds its next match in the body of the node's file
\* (read and parsed before the first match), with link target linkPath.
ScanMatch(linkPath) ==
  /\ pc = "refs"
  /\ nodeIdx <= Len(nodes)
  /\ matchCount < MaxLinks
  /\ LET node == nodes[nodeIdx]
         targetNode == TargetOfLink(node, fileMap, linkPath)
         outcome == MatchOutcome(links, node, targetNode, linkPath)
     IN /\ links' = LinksAfterMatch(links, node, targetNode, outcome)
        /\ lastMatch' = outcome
  /\ matchCount' = matchCount + 1
  /\ UNCHANGED <<siteFiles, options, pc, searchPatterns, patIdx, allFiles, fileIdx, nodes,
                 fileMap, nodeIdx, failures, result>>
  /\ UNCHANGED loaderVars
  /\ UNCHANGED graphVars
  /\ UNCHANGED callVars

\* Line 242: the regex finds no further match; on to the next node.
EndOfMatches ==
  /\ pc = "refs"
  /\ nodeIdx <= Len(nodes)
  /\ lastMatch' = "none"
  /\ nodeIdx' = nodeIdx + 1
  /\ UNCHANGED <<siteFiles, options, pc, searchPatterns, patIdx, allFiles, fileIdx, nodes,
                 fileMap, links, matchCount, failures, result>>
  /\ UNCHANGED loaderVars
  /\ UNCHANGED graphVars
  /\ UNCHANGED callVars

\* Mutant of GraphMetadata: the nodes are counted through their distinct ids.
GraphMetadataDistinctIds(ns, ls) ==
  [totalNodes |-> Cardinality({ns[i].id : i \in 1..Len(ns)}), totalLinks |-> Len(ls)]

\* The metadata of the returned graph (generatedAt is left out).
GraphMetadata(ns, ls) == [totalNodes |-> Len(ns), totalLinks |-> Len(ls)]

\* Mutant of ReturnGraph: a graph without nodes is treated as an error.
ReturnGraphRejectingEmpty ==
  /\ pc = "refs"
  /\ nodeIdx > Len(nodes)
  /\ IF nodes = <<>>
     THEN pc' = "rejected" /\ UNCHANGED result
     ELSE /\ result' = [nodes |-> nodes, links |-> links,
                        metadata |-> GraphMetadata(nodes, links), returned |-> TRUE]
          /\ pc' = "done"
  /\ UNCHANGED <<siteFiles, options, searchPatterns, patIdx, allFiles, fileIdx, nodes,
                 fileMap, links, nodeIdx, lastMatch, matchCount, failures>>
  /\ UNCHANGED loaderVars
  /\ UNCHANGED graphVars
  /\ UNCHANGED callVars

\* Lines 77-85.
ReturnGraph ==
  /\ pc = "refs"
  /\ nodeIdx > Len(nodes)
  /\ result' = [nodes |-> nodes, links |-> links, metadata |-> GraphMetadata(nodes, links),
                returned |-> TRUE]
  /\ pc' = "done"
  /\ UNCHANGED <<siteFiles, options, searchPatterns, patIdx, allFiles, fileIdx, nodes,
                 fileMap, links, nodeIdx, lastMatch, matchCount, failures>>
  /\ UNCHANGED loaderVars
  /\ UNCHANGED graphVars
  /\ UNCHANGED callVars

Next ==
  \/ BuildSearchPatterns
  \/ GlobPattern
  \/ ProcessFile
  \/ ProcessFileFails
  \/ ParentChildPass
  \/ ReadNodeFileFails
  \/ \E linkPath \in LinkTargets : ScanMatch(linkPath)
  \/ EndOfMatches
  \/ ReturnGraph

Spec == Init /\ [][Next]_vars

\* The runs of the plugin configured without options: every default of lines 11-18.
InitDefaultOptions == Init /\ options = DefaultOptions

SpecDefaultOptions == InitDefaultOptions /\ [][Next]_vars

(***************************************************************************)
(* Two calls of generateNetworkGraph on one site: index.ts calls it once   *)
(* per build, and a second build of the unchanged site calls it again.     *)
(***************************************************************************)
\* The files and the link targets of the sites that are built twice.
CallFiles == {F_hubMdx, F_http, F_deep, F_home}
CallLinkTargets == {T_sibling, T_hubNoExt}

CallSiteChoices ==
  {s \in SiteChoices : \A i \in 1..Len(s) : s[i] \in CallFiles}

\* What the unchanged file system answers: at most one read that fails (the read
\* of the file at a position of allFiles in the discovery loop, or of the node at
\* a position of nodes in generateReferenceLinks), and the link targets, in
\* order, in the body of the node at one position.
ReadFailures ==
  {NoEnvironment.failAt} \cup [phase : {"discovery", "refs"}, at : 1..MaxFiles]

LinkScripts == UNION {[1..n -> CallLinkTargets] : n \in 0..MaxLinks}

Environments == [failAt : ReadFailures, matchNode : 1..MaxFiles, script : LinkScripts]

FailsAt(phase, at) == environment.failAt = [phase |-> phase, at |-> at]

InitTwoCalls ==
  /\ siteFiles \in CallSiteChoices
  /\ options = DefaultOptions
  /\ pc = "start"
  /\ searchPatterns = <<>>
  /\ patIdx = 1
  /\ allFiles = <<>>
  /\ fileIdx = 1
  /\ nodes = <<>>
  /\ fileMap = <<>>
  /\ links = <<>>
  /\ nodeIdx = 1
  /\ lastMatch = "none"
  /\ matchCount = 0
  /\ failures = 0
  /\ result = NoResult
  /\ NotMounted
  /\ environment \in Environments
  /\ run = 1
  /\ firstResult = NoResult
  /\ other = NoOtherCall

\* The steps of a call whose outcome the file system decides, each taken when the
\* environment answers that way.
ProcessFileAsRead == ~FailsAt("discovery", fileIdx) /\ ProcessFile

ProcessFileFailsAsRead == FailsAt("discovery", fileIdx) /\ ProcessFileFails

ReadNodeFileFailsAsRead == FailsAt("refs", nodeIdx) /\ ReadNodeFileFails

ScanMatchAsRead ==
  /\ ~FailsAt("refs", nodeIdx)
  /\ nodeIdx = environment.matchNode
  /\ matchCount < Len(environment.script)
  /\ ScanMatch(environment.script[matchCount + 1])

EndOfMatchesAsRead ==
  /\ ~FailsAt("refs", nodeIdx)
  /\ nodeIdx = environment.matchNode => matchCount = Len(environment.script)
  /\ EndOfMatches

\* Mutant of RunAgain: nodes is declared outside the function and keeps the nodes
\* of the first call.
RunAgainKeepingNodes ==
  /\ pc = "done"
  /\ run = 1
  /\ run' = 2
  /\ firstResult' = result
  /\ pc' = "start"
  /\ searchPatterns' = <<>>
  /\ patIdx' = 1
  /\ allFiles' = <<>>
  /\ fileIdx' = 1
  /\ fileMap' = <<>>
  /\ links' = <<>>
  /\ nodeIdx' = 1
  /\ lastMatch' = "none"
  /\ matchCount' = 0
  /\ failures' = 0
  /\ result' = NoResult
  /\ UNCHANGED <<siteFiles, options, nodes, environment, other>>
  /\ UNCHANGED loaderVars
  /\ UNCHANGED graphVars

\* Lines 7-25 and 46: the second call, with the same siteDir and options; its
\* locals nodes, links, fileMap, searchPatterns and allFiles are created anew.
RunAgain ==
  /\ pc = "done"
  /\ run = 1
  /\ run' = 2
  /\ firstResult' = result
  /\ pc' = "start"
  /\ searchPatterns' = <<>>
  /\ patIdx' = 1
  /\ allFiles' = <<>>
  /\ fileIdx' = 1
  /\ nodes' = <<>>
  /\ fileMap' = <<>>
  /\ links' = <<>>
  /\ nodeIdx' = 1
  /\ lastMatch' = "none"
  /\ matchCount' = 0
  /\ failures' = 0
  /\ result' = NoResult
  /\ UNCHANGED <<siteFiles, options, environment, other>>
  /\ UNCHANGED loaderVars
  /\ UNCHANGED graphVars

NextTwoCalls ==
  \/ BuildSearchPatterns
  \/ GlobPattern
  \/ ProcessFileAsRead
  \/ ProcessFileFailsAsRead
  \/ ParentChildPass
  \/ ReadNodeFileFailsAsRead
  \/ ScanMatchAsRead
  \/ EndOfMatchesAsRead
  \/ ReturnGraph
  \/ RunAgain

SpecTwoCalls == InitTwoCalls /\ [][NextTwoCalls]_vars

(***************************************************************************)
(* Two calls of generateNetworkGraph in flight in one process. The         *)
(* variables of the generator hold the arguments and locals of the call    *)
(* that runs; those of the call suspended at an await are in other. The    *)
(* first call of a behaviour runs alone; the second, with the same         *)
(* arguments, shares the process with another call.                        *)
(***************************************************************************)
PairSites == {<<F_hubMdx, F_http>>, <<F_hubMdx, F_http, F_deep>>, <<F_home>>}

PairEnvironments ==
  {e \in Environments : e.matchNode <= 2 /\ e.failAt.at <= 1}

OtherEnvironments ==
  {[failAt |-> NoEnvironment.failAt, matchNode |-> 1, script |-> <<T_hubNoExt>>],
   [failAt |-> NoEnvironment.failAt, matchNode |-> 2, script |-> <<T_hubNoExt>>],
   [failAt |-> [phase |-> "discovery", at |-> 1], matchNode |-> 1, script |-> <<>>]}

InitInterleaved ==
  /\ siteFiles \in PairSites
  /\ options = DefaultOptions
  /\ pc = "start"
  /\ searchPatterns = <<>>
  /\ patIdx = 1
  /\ allFiles = <<>>
  /\ fileIdx = 1
  /\ nodes = <<>>
  /\ fileMap = <<>>
  /\ links = <<>>
  /\ nodeIdx = 1
  /\ lastMatch = "none"
  /\ matchCount = 0
  /\ failures = 0
  /\ result = NoResult
  /\ NotMounted
  /\ environment \in PairEnvironments
  /\ run = 1
  /\ firstResult = NoResult
  /\ \E site \in PairSites, env \in OtherEnvironments :
       other = SuspendedCall("B", site, DefaultOptions, env)

\* The call that runs is at an await (glob of lines 48-51, readFile of line 60 or
\* of line 237) or has returned.
AtAwait ==
  \/ pc \in {"start", "glob", "done"}
  \/ pc = "refs" /\ lastMatch = "none"

\* Mutant of Switch: links is declared outside the function, one array that both
\* calls push to.
SwitchSharingLinks ==
  /\ run = 2
  /\ AtAwait
  /\ other.pc # "done"
  /\ other' = [call |-> IF other.call = "B" THEN "A" ELSE "B",
               siteFiles |-> siteFiles, options |-> options, environment |-> environment,
               pc |-> pc, searchPatterns |-> searchPatterns, patIdx |-> patIdx,
               allFiles |-> allFiles, fileIdx |-> fileIdx, nodes |-> nodes,
               fileMap |-> fileMap, links |-> links, nodeIdx |-> nodeIdx,
               lastMatch |-> lastMatch, matchCount |-> matchCount,
               failures |-> failures, result |-> result]
  /\ siteFiles' = other.siteFiles
  /\ options' = other.options
  /\ environment' = other.environment
  /\ pc' = other.pc
  /\ searchPatterns' = other.searchPatterns
  /\ patIdx' = other.patIdx
  /\ allFiles' = other.allFiles
  /\ fileIdx' = other.fileIdx
  /\ nodes' = other.nodes
  /\ fileMap' = other.fileMap
  /\ nodeIdx' = other.nodeIdx
  /\ lastMatch' = other.lastMatch
  /\ matchCount' = other.matchCount
  /\ failures' = other.failures
  /\ result' = other.result
  /\ UNCHANGED <<links, run, firstResult>>
  /\ UNCHANGED loaderVars
  /\ UNCHANGED graphVars

\* The call that runs reaches an await and the event loop resumes the other call:
\* its parameters (lines 8-9) and its locals (lines 20-25, 46 and 234) are its
\* own, those of the call left behind stay as they are.
Switch ==
  /\ run = 2
  /\ AtAwait
  /\ other.pc # "done"
  /\ other' = [call |-> IF other.call = "B" THEN "A" ELSE "B",
               siteFiles |-> siteFiles, options |-> options, environment |-> environment,
               pc |-> pc, searchPatterns |-> searchPatterns, patIdx |-> patIdx,
               allFiles |-> allFiles, fileIdx |-> fileIdx, nodes |-> nodes,
               fileMap |-> fileMap, links |-> links, nodeIdx |-> nodeIdx,
               lastMatch |-> lastMatch, matchCount |-> matchCount,
               failures |-> failures, result |-> result]
  /\ siteFiles' = other.siteFiles
  /\ options' = other.options
  /\ environment' = other.environment
  /\ pc' = other.pc
  /\ searchPatterns' = other.searchPatterns
  /\ patIdx' = other.patIdx
  /\ allFiles' = other.allFiles
  /\ fileIdx' = other.fileIdx
  /\ nodes' = other.nodes
  /\ fileMap' = other.fileMap
  /\ links' = other.links
  /\ nodeIdx' = other.nodeIdx
  /\ lastMatch' = other.lastMatch
  /\ matchCount' = other.matchCount
  /\ failures' = other.failures
  /\ result' = other.result
  /\ UNCHANGED <<run, firstResult>>
  /\ UNCHANGED loaderVars
  /\ UNCHANGED graphVars

NextInterleaved ==
  \/ BuildSearchPatterns
  \/ GlobPattern
  \/ ProcessFileAsRead
  \/ ProcessFileFailsAsRead
  \/ ParentChildPass
  \/ ReadNodeFileFailsAsRead
  \/ ScanMatchAsRead
  \/ EndOfMatchesAsRead
  \/ ReturnGraph
  \/ RunAgain
  \/ Switch

SpecInterleaved == InitInterleaved /\ [][NextInterleaved]_vars

(***************************************************************************)
(* The loading components in the browser.                                  *)
(***************************************************************************)
\* The generator at rest while a component is on screen.
GeneratorIdle ==
  /\ siteFiles = <<>>
  /\ options = DefaultOptions
  /\ pc = "start"
  /\ searchPatterns = <<>>
  /\ patIdx = 1
  /\ allFiles = <<>>
  /\ fileIdx = 1
  /\ nodes = <<>>
  /\ fileMap = <<>>
  /\ links = <<>>
  /\ nodeIdx = 1
  /\ lastMatch = "none"
  /\ matchCount = 0
  /\ failures = 0
  /\ result = NoResult

InitLoader ==
  /\ GeneratorIdle
  /\ component \in {"NetworkGraphEmbed", "NetworkGraphLoader"}
  /\ location \in Pathnames
  /\ FirstRender
  /\ SingleCall
  /\ onNodeClick = "none"
  /\ GraphAtRest

\* Lines 135-192 (generator.ts 336-386): the effects of the first commit. The
\* filter effect finds data null and does nothing; loadGraphData runs up to its
\* first await.
Mount ==
  /\ loadPc = "mount"
  /\ loadPc' = "fetch"
  /\ filterDue' = FALSE
  /\ UNCHANGED <<component, location, navigations, pathIdx, graphData, lastError, fetched,
                 data, loading, error, filteredData>>
  /\ UNCHANGED generatorVars
  /\ UNCHANGED graphVars
  /\ UNCHANGED callVars

\* Mutant of SettledState: loadGraphData has no outer try/catch, so the throw of
\* line 159 rejects its promise.
SettledStateUncaught(comp, gd) ==
  IF gd = NoData
  THEN [data |-> NoData, error |-> NoError, loading |-> TRUE, loadPc |-> "rejected"]
  ELSE [data |-> gd, error |-> NoError, loading |-> FALSE, loadPc |-> "settled"]

\* Lines 158-179 (generator.ts 359-384): what follows the loop: the throw of line
\* 159 and its catch, or setData(graphData); then the finally.
SettledState(comp, gd) ==
  IF gd = NoData
  THEN [data |-> FallbackData, error |-> ErrorMessage(comp), loading |-> FALSE,
        loadPc |-> "settled"]
  ELSE [data |-> gd, error |-> NoError, loading |-> FALSE, loadPc |-> "settled"]

\* Mutant of FetchCandidate: the loop has no break at line 152, so a parsed
\* response is followed by the fetch of the next URL.
FetchCandidateNoBreak(outcome) ==
  /\ loadPc = "fetch"
  /\ pathIdx <= Len(PossiblePaths)
  /\ fetched' = Append(fetched, outcome)
  /\ LET gd == IF outcome.kind = "json" THEN outcome.json ELSE graphData
         leaves == pathIdx = Len(PossiblePaths)
         settled == SettledState(component, gd)
     IN /\ graphData' = gd
        /\ lastError' = IF outcome.kind \in {"fetch rejects", "json rejects"}
                        THEN outcome.kind ELSE lastError
        /\ pathIdx' = pathIdx + 1
        /\ IF leaves
           THEN /\ data' = settled.data
                /\ error' = settled.error
                /\ loading' = settled.loading
                /\ loadPc' = settled.loadPc
                /\ filterDue' = (component = "NetworkGraphEmbed")
           ELSE UNCHANGED <<data, error, loading, loadPc, filterDue>>
  /\ UNCHANGED <<component, location, navigations, filteredData>>
  /\ UNCHANGED generatorVars
  /\ UNCHANGED graphVars
  /\ UNCHANGED callVars

\* Lines 147-179 (generator.ts 348-384): the awaits of one iteration of the loop
\* over possiblePaths settle with outcome; after a break or the last URL the rest
\* of loadGraphData runs in the same task.
FetchCandidate(outcome) ==
  /\ loadPc = "fetch"
  /\ pathIdx <= Len(PossiblePaths)
  /\ fetched' = Append(fetched, outcome)
  /\ LET gd == IF outcome.kind = "json" THEN outcome.json ELSE graphData
         leaves == outcome.kind = "json" \/ pathIdx = Len(PossiblePaths)
         settled == SettledState(component, gd)
     IN /\ graphData' = gd
        /\ lastError' = IF outcome.kind \in {"fetch rejects", "json rejects"}
                        THEN outcome.kind ELSE lastError
        /\ pathIdx' = IF outcome.kind = "json" THEN pathIdx ELSE pathIdx + 1
        /\ IF leaves
           THEN /\ data' = settled.data
                /\ error' = settled.error
                /\ loading' = settled.loading
                /\ loadPc' = settled.loadPc
                /\ filterDue' = (component = "NetworkGraphEmbed")
           ELSE UNCHANGED <<data, error, loading, loadPc, filterDue>>
  /\ UNCHANGED <<component, location, navigations, filteredData>>
  /\ UNCHANGED generatorVars
  /\ UNCHANGED graphVars
  /\ UNCHANGED callVars

\* Lines 187-192: the effect on [data, location.pathname].
FilterEffect ==
  /\ component = "NetworkGraphEmbed"
  /\ loadPc # "mount"
  /\ filterDue
  /\ filterDue' = FALSE
  /\ filteredData' = IF data # NoData THEN FilterDataForCurrentPage(data, location)
                     ELSE filteredData
  /\ UNCHANGED <<component, location, navigations, loadPc, pathIdx, graphData, lastError,
                 fetched, data, loading, error>>
  /\ UNCHANGED generatorVars
  /\ UNCHANGED graphVars
  /\ UNCHANGED callVars

\* The router moves to another page that embeds the same mounted component.
Navigate(pathname) ==
  /\ component = "NetworkGraphEmbed"
  /\ loadPc # "mount"
  /\ navigations < MaxNavigations
  /\ pathname # location
  /\ location' = pathname
  /\ navigations' = navigations + 1
  /\ filterDue' = TRUE
  /\ UNCHANGED <<component, loadPc, pathIdx, graphData, lastError, fetched, data, loading,
                 error, filteredData>>
  /\ UNCHANGED generatorVars
  /\ UNCHANGED graphVars
  /\ UNCHANGED callVars

NextLoader ==
  \/ Mount
  \/ \E outcome \in FetchOutcomes : FetchCandidate(outcome)
  \/ FilterEffect
  \/ \E pathname \in Pathnames : Navigate(pathname)

SpecLoader == InitLoader /\ [][NextLoader]_vars

\* The effects of a committed render are run, and the promises of fetch and of
\* response.json() settle: the steps of loadGraphData are not put off for ever.
\* Navigation is left to the reader of the page.
SpecLoaderFair ==
  /\ SpecLoader
  /\ WF_vars(Mount)
  /\ WF_vars(\E outcome \in FetchOutcomes : FetchCandidate(outcome))

\* Lines 520-600 (generator.ts 388-445): the branch the render takes.
RenderBranch ==
  IF loading THEN "loading"
  ELSE IF error # NoError THEN "error"
  ELSE IF component = "NetworkGraphEmbed"
       THEN (IF filteredData = NoData \/ Len(filteredData.nodes) = 0 THEN "empty" ELSE "graph")
       ELSE (IF data = NoData \/ Len(data.nodes) = 0 THEN "empty" ELSE "graph")

(***************************************************************************)
(* NetworkGraph.tsx: clicks on the nodes of the drawn graph.               *)
(***************************************************************************)
\* The bound on the clicks, double clicks and effect runs of one mounted graph.
MaxEvents == 3

\* The nodes drawn (props.data.nodes).
DrawnNodes == {NodeOf(F_hubMdx), NodeOf(F_http)}

Event(type, node) == [type |-> type, node |-> node]
Effect(call, node) == [call |-> call, node |-> node]

\* The id setTimeout returns: one more than the timeouts set so far.
NextTimerId ==
  1 + Cardinality({i \in 1..Len(events) : events[i].type = "click"})

\* The clicks, double clicks and effect runs so far.
Interactions ==
  Cardinality({i \in 1..Len(events) : events[i].type \in {"click", "dblclick", "effect"}})

\* clearTimeout(id).
ClearTimeout(pending, id) == {t \in pending : t.id # id}

\* The document has been left: window.location.href was set and the new page
\* has replaced this one.
Unloaded == events # <<>> /\ Last(events).type = "unload"

InitGraph ==
  /\ GeneratorIdle
  /\ component = "none"
  /\ location = <<SLASH>>
  /\ FirstRender
  /\ SingleCall
  /\ onNodeClick \in {"given", "none"}
  /\ GraphAtRest

\* Lines 163-180: the click handler of a node's circle, as registered by the last
\* effect run.
NodeClick(d) ==
  /\ ~Unloaded
  /\ Interactions < MaxEvents
  /\ events' = Append(events, Event("click", d))
  /\ timers' = (IF closureTimeout # 0 THEN ClearTimeout(timers, closureTimeout) ELSE timers)
                 \cup {[id |-> NextTimerId, node |-> d]}
  /\ clickTimeout' = NextTimerId
  /\ UNCHANGED <<onNodeClick, closureTimeout, effects>>
  /\ UNCHANGED generatorVars
  /\ UNCHANGED loaderVars
  /\ UNCHANGED callVars

\* Lines 173-177: the timeout of a click fires after 250 ms.
TimerFires(t) ==
  /\ t \in timers
  /\ timers' = timers \ {t}
  /\ effects' = Append(effects, Effect("handleSingleClick", t.node))
  /\ clickTimeout' = 0
  /\ events' = Append(events, Event("timeout", t.node))
  /\ UNCHANGED <<onNodeClick, closureTimeout>>
  /\ UNCHANGED generatorVars
  /\ UNCHANGED loaderVars
  /\ UNCHANGED callVars

\* Lines 181-196: the dblclick handler of a node's circle.
NodeDblClick(d) ==
  /\ ~Unloaded
  /\ Interactions < MaxEvents
  /\ events' = Append(events, Event("dblclick", d))
  /\ timers' = IF closureTimeout # 0 THEN ClearTimeout(timers, closureTimeout) ELSE timers
  /\ clickTimeout' = IF closureTimeout # 0 THEN 0 ELSE clickTimeout
  /\ effects' = Append(effects, IF onNodeClick = "given" THEN Effect("onNodeClick", d)
                                ELSE Effect("location.href", d))
  /\ UNCHANGED <<onNodeClick, closureTimeout>>
  /\ UNCHANGED generatorVars
  /\ UNCHANGED loaderVars
  /\ UNCHANGED callVars

\* Lines 341-348: data, width, height or onNodeClick changes; the cleanup of the
\* last effect run runs with the clickTimeout it saw, and the effect runs again
\* with the clickTimeout of this render.
EffectRunsAgain ==
  /\ ~Unloaded
  /\ Interactions < MaxEvents
  /\ events' = Append(events, Event("effect", NoNode))
  /\ timers' = IF closureTimeout # 0 THEN ClearTimeout(timers, closureTimeout) ELSE timers
  /\ closureTimeout' = clickTimeout
  /\ UNCHANGED <<onNodeClick, clickTimeout, effects>>
  /\ UNCHANGED generatorVars
  /\ UNCHANGED loaderVars
  /\ UNCHANGED callVars

\* Line 194: the page that window.location.href names replaces the document, and
\* its pending timeouts go with it.
PageUnloads ==
  /\ ~Unloaded
  /\ \E i \in 1..Len(effects) : effects[i].call = "location.href"
  /\ events' = Append(events, Event("unload", NoNode))
  /\ timers' = {}
  /\ UNCHANGED <<onNodeClick, clickTimeout, closureTimeout, effects>>
  /\ UNCHANGED generatorVars
  /\ UNCHANGED loaderVars
  /\ UNCHANGED callVars

NextGraph ==
  \/ \E d \in DrawnNodes : NodeClick(d)
  \/ \E t \in timers : TimerFires(t)
  \/ \E d \in DrawnNodes : NodeDblClick(d)
  \/ EffectRunsAgain
  \/ PageUnloads

SpecGraph == InitGraph /\ [][NextGraph]_vars

(***************************************************************************)
(* Properties of the generated graph.                                      *)
(***************************************************************************)
IsParentChild(l) == l.type = "parent-child"
IsReference(l) == l.type = "reference"
NodeIds(ns) == {ns[i].id : i \in 1..Len(ns)}
HasDuplicateNode(ns) == \E i, j \in 1..Len(ns) : i < j /\ ns[i].id = ns[j].id

\* C1: the node list of the returned graph holds no two nodes with the same id.
C1_NodeIdsUnique ==
  \A i, j \in 1..Len(result.nodes) :
    i # j => result.nodes[i].id # result.nodes[j].id

\* The directory of a file id and its last segment.
DirOf(id) == Join(SliceOff(Split(id, SLASH), 1), SLASH)
FileNameOf(id) == Last(Split(id, SLASH))
DirNameOf(id) == Last(Split(DirOf(id), SLASH))

\* h is the hub of the directory it lives in: <D>/<last segment of D>.md or .mdx.
IsHub(h) ==
  /\ Len(Split(h, SLASH)) > 1
  /\ FileNameOf(h) \in {DirNameOf(h) \o S_md, DirNameOf(h) \o S_mdx}

HasParentChildEdge(ls, a, b) ==
  \E i \in 1..Len(ls) : IsParentChild(ls[i]) /\ ls[i].source = a /\ ls[i].target = b

\* C2: in the returned graph every hub (of either extension) has a parent-child
\* edge to every other node directly in its directory, and no parent-child edge
\* joins two siblings neither of which is a hub.
C2_SameDirHubRule ==
  result.returned =>
    /\ \A h, n \in NodeIds(result.nodes) :
         (IsHub(h) /\ n # h /\ DirOf(n) = DirOf(h))
           => HasParentChildEdge(result.links, h, n)
    /\ \A a, b \in NodeIds(result.nodes) :
         (DirOf(a) = DirOf(b) /\ ~IsHub(a) /\ ~IsHub(b))
           => ~HasParentChildEdge(result.links, a, b)

\* C3: the returned graph holds no two edges with the same (source, target, type),
\* and no two parent-child edges between the same two ids in either direction.
C3_NoDuplicateEdges ==
  \A i, j \in 1..Len(result.links) :
    i # j =>
      LET a == result.links[i]
          b == result.links[j]
      IN /\ ~(a.source = b.source /\ a.target = b.target /\ a.type = b.type)
         /\ (IsParentChild(a) /\ IsParentChild(b))
              => ~(a.source = b.target /\ a.target = b.source)

\* Both deduplication checks have suppressed an edge: a node listed twice is the
\* target of a parent-child edge (its second visit found the edge in place), and the
\* last link matched fell on a reference edge that was there already.
C3_Witness ==
  /\ pc = "refs"
  /\ lastMatch = "duplicate"
  /\ \E i, j \in 1..Len(nodes) :
       /\ i < j
       /\ nodes[i].id = nodes[j].id
       /\ \E k \in 1..Len(links) : IsParentChild(links[k]) /\ links[k].target = nodes[i].id

\* The ancestor-level edges that point at node id n.
AncestorEdgesTo(ls, n) ==
  {i \in 1..Len(ls) :
     IsParentChild(ls[i]) /\ ls[i].strength = StrengthHierarchical /\ ls[i].target = n}

\* The first candidate of the ancestor rule that is a node other than n.
IsFirstExistingCandidate(ns, n, source) ==
  LET candidates == PotentialParents(Split(n, SLASH))
  IN \E k \in 1..Len(candidates) :
       /\ candidates[k] = source
       /\ source \in NodeIds(ns)
       /\ \A m \in 1..(k - 1) : candidates[m] \notin NodeIds(ns) \/ candidates[m] = n

\* C4: every node is the target of at most one ancestor-level edge, whose source is
\* the first existing candidate.
C4_OneAncestorParent ==
  \A n \in NodeIds(result.nodes) :
    /\ Cardinality(AncestorEdgesTo(result.links, n)) <= 1
    /\ \A i \in AncestorEdgesTo(result.links, n) :
         IsFirstExistingCandidate(result.nodes, n, result.links[i].source)

\* The link target, cleaned and resolved from the node being scanned, is no node id
\* under any candidate form and is no node's URL path.
IsResolutionMiss(linkPath) ==
  LET resolved == ResolvedLinks[IndexOfFile(nodes[nodeIdx].id)][linkPath]
  IN \A i \in 1..Len(fileMap) :
       /\ \A k \in 1..Len(CandidateIds(resolved)) : fileMap[i].id # CandidateIds(resolved)[k]
       /\ fileMap[i].path # resolved
       /\ fileMap[i].path # <<SLASH>> \o resolved
       /\ ~(Len(resolved) > 0 /\ EndsWith(fileMap[i].path, resolved))

\* C5: a match whose link matches no known node leaves the edge list unchanged.
C5_MissAddsNoEdge ==
  [][\A linkPath \in LinkTargets :
       (ScanMatch(linkPath) /\ IsResolutionMiss(linkPath)) => links' = links]_vars

\* The target begins with http://, https:// or mailto:.
HasExternalScheme(linkPath) ==
  \/ StartsWith(linkPath, S_http \o <<":", "/", "/">>)
  \/ StartsWith(linkPath, S_http \o <<"s", ":", "/", "/">>)
  \/ StartsWith(linkPath, S_mailto)

\* The edge list after a link that goes through resolution: a target that is another
\* node and has no reference edge from this node yet gets one.
LinksAfterResolution(ls, node, targetNode) ==
  IF targetNode # NoNode /\ targetNode.id # node.id
     /\ ~\E i \in 1..Len(ls) :
           IsReference(ls[i]) /\ ls[i].source = node.id /\ ls[i].target = targetNode.id
  THEN Append(ls, Link(node.id, targetNode.id, "reference", StrengthReference))
  ELSE ls

\* C6: a link target is discarded exactly when it begins with http://, https:// or
\* mailto:; every other target goes through resolution.
C6_ExternalExactlySchemes ==
  [][\A linkPath \in LinkTargets :
       ScanMatch(linkPath) =>
         links' = IF HasExternalScheme(linkPath) THEN links
                  ELSE LinksAfterResolution(links, nodes[nodeIdx],
                         TargetOfLink(nodes[nodeIdx], fileMap, linkPath))]_vars

\* C7: no parent-child edge of the returned graph points at a node deeper than
\* maxDepth path segments.
C7_DepthBound ==
  \A i \in 1..Len(result.links) :
    IsParentChild(result.links[i])
      => Len(Split(result.links[i].target, SLASH)) <= options.maxDepth

\* The URL of a docs file as the claim words it: the path relative to the docs
\* root, extension stripped, a trailing index segment collapsed, a file name that
\* repeats its directory dropped, behind /docs/.
DocsUrl(id) ==
  LET rel == Split(StripMarkdownExt(Substring(id, Len(S_docs) + 1)), SLASH)
      noIndex == IF Last(rel) = S_index THEN Front(rel) ELSE rel
      noDup == IF Len(noIndex) >= 2 /\ noIndex[Len(noIndex) - 1] = Last(noIndex)
               THEN Front(noIndex) ELSE noIndex
  IN <<SLASH>> \o S_docs \o <<SLASH>> \o Join(noDup, SLASH)

\* C8: every node under docs/ has the URL path /docs/ followed by its cleaned path
\* relative to the docs root.
C8_DocsUrlPath ==
  \A i \in 1..Len(result.nodes) :
    StartsWith(result.nodes[i].id, S_docs \o <<SLASH>>)
      => result.nodes[i].path = DocsUrl(result.nodes[i].id)

\* C9: the counts of the returned graph's metadata are the lengths of its lists.
C9_CountsMatch ==
  /\ result.metadata.totalNodes = Len(result.nodes)
  /\ result.metadata.totalLinks = Len(result.links)

\* A returned graph with a node listed twice and with edges.
C9_Witness ==
  /\ result.returned
  /\ HasDuplicateNode(result.nodes)
  /\ Len(result.links) >= 2

\* C10: no edge, in the edge list of the run or in the returned graph, has its
\* source as its target.
C10_NoSelfLoop ==
  /\ \A i \in 1..Len(links) : links[i].source # links[i].target
  /\ \A i \in 1..Len(result.links) : result.links[i].source # result.links[i].target

\* Both self checks have acted: the hub of a directory, which is its own candidate
\* in the same-directory rule, is the source of a parent-child edge, and the last
\* link matched resolved to the file that holds it.
C10_Witness ==
  /\ pc = "refs"
  /\ lastMatch = "self"
  /\ F_hubMdx \in NodeIds(nodes)
  /\ \E i \in 1..Len(links) : IsParentChild(links[i]) /\ links[i].source = F_hubMdx

\* The reference edges of ls whose source is a.
ReferenceEdgesFrom(ls, a) ==
  {[source |-> ls[i].source, target |-> ls[i].target, strength |-> ls[i].strength] :
     i \in {k \in 1..Len(ls) : IsReference(ls[k]) /\ ls[k].source = a}}

\* The number of reference edges a -> b in ls.
ReferenceEdgeCount(ls, a, b) ==
  Cardinality({i \in 1..Len(ls) :
                 IsReference(ls[i]) /\ ls[i].source = a /\ ls[i].target = b})

\* C11: every match of [link](./http.md) in the body of a file a whose sibling
\* http.md is a known node other than a leaves exactly one reference edge
\* a -> http.md, of strength 0.5, and adds no other reference edge from a; a match
\* of [link](https://x) adds no edge.
C11_ReferenceInference ==
  [][/\ ScanMatch(T_sibling) =>
          LET a == nodes[nodeIdx].id
              b == ResolvedLinks[IndexOfFile(a)][T_sibling]
          IN (b \in NodeIds(nodes) /\ b # a) =>
               /\ ReferenceEdgeCount(links', a, b) = 1
               /\ ReferenceEdgesFrom(links', a)
                    = ReferenceEdgesFrom(links, a)
                        \cup {[source |-> a, target |-> b, strength |-> StrengthReference]}
               /\ Len(links') <= Len(links) + 1
     /\ ScanMatch(T_https) => links' = links]_vars

\* The body of docs/t/t.md holds [link](./http.md) twice, the only link target of
\* the model that leads from that file to docs/t/http.md: the second match found
\* the edge of the first.
C11_Witness ==
  /\ siteFiles = <<F_hubMd, F_http>>
  /\ pc = "refs"
  /\ nodeIdx <= Len(nodes)
  /\ nodes[nodeIdx].id = F_hubMd
  /\ lastMatch = "duplicate"
  /\ ReferenceEdgeCount(links, F_hubMd, F_http) = 1

\* The candidate forms of a resolved target in the order of the claim: the id, the
\* id with .md, with .mdx, the id as a directory with index.md, with index.mdx.
CandidateForms(id) ==
  << id,
     id \o <<".", "m", "d">>,
     id \o <<".", "m", "d", "x">>,
     id \o <<"/", "i", "n", "d", "e", "x", ".", "m", "d">>,
     id \o <<"/", "i", "n", "d", "e", "x", ".", "m", "d", "x">> >>

\* The forms (by position) that are keys of the map, ids being the map's keys.
KnownForms(ids, forms) == {k \in 1..Len(forms) : forms[k] \in ids}

\* The values of the map whose URL path is id, id behind a slash, or ends with id.
UrlPathHits(fm, id) ==
  {i \in 1..Len(fm) :
     \/ fm[i].path = id
     \/ fm[i].path = <<"/">> \o id
     \/ Len(id) <= Len(fm[i].path)
          /\ SubSeq(fm[i].path, Len(fm[i].path) - Len(id) + 1, Len(fm[i].path)) = id}

\* The value of the map stored under key id.
ValueOfKey(fm, id) == fm[CHOOSE i \in 1..Len(fm) : fm[i].id = id]

\* C12: a link that is not skipped as external is resolved to the node of the
\* earliest candidate form that is a known id; only when no form is known is it
\* resolved to a node whose URL path matches, and to nothing when there is none.
\* Only the steps that record "miss", "self", "duplicate" or "added" resolved a link.
C12_CandidateOrder ==
  [][lastMatch' \in {"miss", "self", "duplicate", "added"} =>
       \A linkPath \in LinkTargets :
         (~IsExternalLink(linkPath) /\ ScanMatch(linkPath)) =>
           LET node == nodes[nodeIdx]
               resolved == ResolvedLinks[IndexOfFile(node.id)][linkPath]
               forms == CandidateForms(resolved)
               known == KnownForms(NodeIds(fileMap), forms)
               first == CHOOSE k \in known : \A m \in known : k <= m
           IN IF known # {}
              THEN links' = LinksAfterResolution(links, node,
                                                 ValueOfKey(fileMap, forms[first]))
              ELSE IF UrlPathHits(fileMap, resolved) = {}
              THEN links' = links
              ELSE \E i \in UrlPathHits(fileMap, resolved) :
                     links' = LinksAfterResolution(links, node, fileMap[i])]_vars

\* docs/t/t.mdx and docs/t/t.md are both nodes, and the link t?q in docs/t/http.md,
\* the only link target of the model that leads from there to docs/t/t.md, was
\* resolved through the .md form.
C12_Witness ==
  /\ siteFiles = <<F_hubMdx, F_hubMd, F_http>>
  /\ NodeIds(nodes) = {F_hubMdx, F_hubMd, F_http}
  /\ pc = "refs"
  /\ nodeIdx <= Len(nodes)
  /\ nodes[nodeIdx].id = F_http
  /\ lastMatch = "added"
  /\ Last(links) = Link(F_http, F_hubMd, "reference", StrengthReference)

\* C13: a link of A that resolves to another node B leaves exactly one reference edge
\* A -> B, and when there was none it is appended, whatever reference edge B -> A and
\* whatever parent-child edge between A and B the list already holds.  Only the steps
\* that record "added" or "duplicate" resolved their link to another node.
C13_DirectedReferenceDedup ==
  [][lastMatch' \in {"added", "duplicate"} =>
       \A linkPath \in LinkTargets :
         (~IsExternalLink(linkPath) /\ ScanMatch(linkPath)) =>
           LET a == nodes[nodeIdx].id
               targetNode == TargetOfLink(nodes[nodeIdx], fileMap, linkPath)
           IN (targetNode # NoNode /\ targetNode.id # a) =>
                /\ ReferenceEdgeCount(links', a, targetNode.id) = 1
                /\ ReferenceEdgeCount(links, a, targetNode.id) = 0
                     => links' = Append(links, Link(a, targetNode.id, "reference",
                                                    StrengthReference))]_vars

\* docs/t/t.mdx and docs/t/http.md link to each other and are joined by a
\* parent-child edge: the list holds the parent-child edge and both reference edges.
C13_Witness ==
  /\ pc = "refs"
  /\ lastMatch = "added"
  /\ HasParentChildEdge(links, F_hubMdx, F_http)
  /\ ReferenceEdgeCount(links, F_hubMdx, F_http) = 1
  /\ ReferenceEdgeCount(links, F_http, F_hubMdx) = 1

\* The file the same-directory rule looks for from node id n (line 167).
SameDirHubOf(n) == DirOf(n) \o <<"/">> \o DirNameOf(n) \o <<".", "m", "d", "x">>

\* ls holds a parent-child edge a -> b of the given strength.
HasParentChildEdgeOfStrength(ls, a, b, strength) ==
  \E i \in 1..Len(ls) :
    /\ IsParentChild(ls[i])
    /\ ls[i].source = a
    /\ ls[i].target = b
    /\ ls[i].strength = strength

\* Node n has a same-directory hub h and an ancestor-level parent a among the nodes.
HasBothParents(ns, n, h, a) ==
  /\ Len(Split(n, SLASH)) > 2
  /\ h = SameDirHubOf(n)
  /\ h # n
  /\ h \in NodeIds(ns)
  /\ IsFirstExistingCandidate(ns, n, a)
  /\ a # n

RECURSIVE DropBlanks(_)
DropBlanks(line) ==
  IF Len(line) > 0 /\ Head(line) \in {" ", "\t"} THEN DropBlanks(Tail(line)) ELSE line

HeadingText(line) ==
  IF Len(line) >= 2 /\ line[1] = "#" /\ line[2] \in {" ", "\t"}
  THEN DropBlanks(Tail(line))
  ELSE <<>>

\* The text of the first level-1 heading among the lines, <<>> when there is none.
RECURSIVE FirstHeading(_)
FirstHeading(lines) ==
  IF Len(lines) = 0 THEN <<>>
  ELSE IF HeadingText(Head(lines)) # <<>> THEN HeadingText(Head(lines))
  ELSE FirstHeading(Tail(lines))

\* The title the priority order gives a file: front-matter title, sidebar_label,
\* first level-1 heading of the body, base name without extension.
TitleByPriority(file) ==
  LET fm == FrontMatterOf(file)
      heading == FirstHeading(Split(BodyOf(file), "\n"))
  IN IF fm.title \notin {Undefined, <<>>} THEN fm.title
     ELSE IF fm.sidebar_label \notin {Undefined, <<>>} THEN fm.sidebar_label
     ELSE IF heading # <<>> THEN heading
     ELSE StripMarkdownExt(FileNameOf(file))

\* C15: every node of the returned graph has the title the priority order gives its
\* file, and no title is empty.
C15_TitlePriority ==
  \A i \in 1..Len(result.nodes) :
    /\ result.nodes[i].title = TitleByPriority(result.nodes[i].id)
    /\ result.nodes[i].title # <<>>

\* The files whose processing failed: listed in allFiles, without a node.
FailedFiles == {allFiles[i] : i \in 1..Len(allFiles)} \ NodeIds(nodes)

\* Every failure of the run fell on a file that failed each time it was read.
FailuresArePerFile ==
  failures = Cardinality({i \in 1..Len(allFiles) : allFiles[i] \in FailedFiles})

\* The site without the files in X.
RECURSIVE SiteWithout(_, _)
SiteWithout(files, X) ==
  IF Len(files) = 0 THEN <<>>
  ELSE (IF Head(files) \in X THEN <<>> ELSE <<Head(files)>>) \o SiteWithout(Tail(files), X)

\* The files the patterns find in a site, pattern after pattern.
RECURSIVE FilesFound(_, _, _)
FilesFound(patterns, files, ignore) ==
  IF Len(patterns) = 0 THEN <<>>
  ELSE Glob(files, Head(patterns), ignore) \o FilesFound(Tail(patterns), files, ignore)

\* The node list and the map of a discovery in which every file is read and parsed.
RECURSIVE NodesFrom(_)
NodesFrom(files) ==
  IF Len(files) = 0 THEN <<>>
  ELSE <<NodesOfFiles[IndexOfFile(Head(files))]>> \o NodesFrom(Tail(files))

RECURSIVE FileMapFrom(_, _)
FileMapFrom(ns, fm) ==
  IF Len(ns) = 0 THEN fm ELSE FileMapFrom(Tail(ns), MapSet(fm, Head(ns)))

\* C16: a failure does not end the run: the run is at one of the program points of
\* generateNetworkGraph, never at a rejection.  The graph it returns is that of a run
\* over the site without the failed files: its nodes are the nodes of the files
\* found there, its first edges the parent-child edges inferred from these nodes,
\* and its other edges reference edges between these nodes.
C16_FailuresSkipFile ==
  /\ pc \in {"start", "glob", "refs", "done"}
  /\ pc = "done" => result.returned
  /\ (result.returned /\ FailuresArePerFile) =>
       LET found == FilesFound(SearchPatterns(options), SiteWithout(siteFiles, FailedFiles),
                               options.excludePatterns)
           structural == GenerateParentChildLinks(NodesFrom(found), <<>>, options.maxDepth)
       IN /\ result.nodes = NodesFrom(found)
          /\ fileMap = FileMapFrom(NodesFrom(found), <<>>)
          /\ Len(structural) <= Len(result.links)
          /\ SubSeq(result.links, 1, Len(structural)) = structural
          /\ \A i \in (Len(structural) + 1)..Len(result.links) :
               /\ IsReference(result.links[i])
               /\ result.links[i].source \in NodeIds(result.nodes)
               /\ result.links[i].target \in NodeIds(result.nodes)

\* A graph was returned by a run in which a file failed in discovery while other
\* files became nodes joined by edges.
C16_Witness ==
  /\ pc = "done"
  /\ result.returned
  /\ failures > 0
  /\ FailuresArePerFile
  /\ FailedFiles # {}
  /\ Len(result.nodes) >= 2
  /\ Len(result.links) >= 1

(***************************************************************************)
(* Properties of the loading components.                                   *)
(***************************************************************************)
\* The graph on screen is the one computed for the data and the location in place.
FilterSettled ==
  /\ component = "NetworkGraphEmbed"
  /\ loadPc = "settled"
  /\ ~filterDue
  /\ filteredData # NoData

\* The ids an edge of ls joins to id, in either direction.
NeighboursOf(ls, id) ==
  {n \in {ls[i].source : i \in 1..Len(ls)} \cup {ls[i].target : i \in 1..Len(ls)} :
     \E i \in 1..Len(ls) :
       \/ ls[i].source = id /\ ls[i].target = n
       \/ ls[i].source = n /\ ls[i].target = id}

\* C17: the filtered graph holds, in the order of the full graph, exactly the nodes
\* whose id is the current node's or a neighbour's, exactly the edges of the full
\* graph with both endpoints among the nodes kept, and the counts of what it holds;
\* on the chain A-B (parent-child), B-C (reference) the current node B gives
\* {A, B, C} with both edges and the current node A gives {A, B} with A-B alone.
C17_FilteredNeighbourhood ==
  FilterSettled =>
    LET currentNode == FindCurrentNode(data.nodes, location, 1)
        wanted == {currentNode.id} \cup NeighboursOf(data.links, currentNode.id)
        kept == NodeIds(filteredData.nodes)
    IN currentNode # NoNode =>
         /\ filteredData.nodes = SelectSeq(data.nodes, LAMBDA n : n.id \in wanted)
         /\ filteredData.links =
              SelectSeq(data.links, LAMBDA l : l.source \in kept /\ l.target \in kept)
         /\ filteredData.metadata.totalNodes = Len(filteredData.nodes)
         /\ filteredData.metadata.totalLinks = Len(filteredData.links)
         /\ (data = G_chain /\ currentNode.id = F_http) =>
              /\ kept = {F_hubMdx, F_http, F_deep}
              /\ filteredData.links = <<L_hubToHttp, L_httpToDeep>>
         /\ (data = G_chain /\ currentNode.id = F_hubMdx) =>
              /\ kept = {F_hubMdx, F_http}
              /\ filteredData.links = <<L_hubToHttp>>

\* The chain was filtered for B and then, after a navigation, for A, which left
\* C and the edge B-C out.
C17_Witness ==
  /\ FilterSettled
  /\ data = G_chain
  /\ navigations > 0
  /\ FindCurrentNode(data.nodes, location, 1) = NodeOf(F_hubMdx)
  /\ NodeIds(filteredData.nodes) = {F_hubMdx, F_http}
  /\ filteredData.links = <<L_hubToHttp>>
  /\ filteredData.metadata.totalNodes = 2

\* The pathname p names node n: its path is p, or p without its final slash, or a
\* stretch of p.
LocationMatches(n, p) ==
  \/ n.path = p
  \/ n.path \o <<SLASH>> = p
  \/ \E i \in 1..(Len(p) + 1), j \in 0..Len(p) : SubSeq(p, i, j) = n.path

\* C18: when the location matches no node of the full graph the filtered graph has
\* no nodes, no links and both counts 0; and whatever was loaded, shown or visited
\* before, the filtered graph is the function of the full graph and the pathname.
C18_NoMatchGivesEmptyGraph ==
  FilterSettled =>
    /\ (\A i \in 1..Len(data.nodes) : ~LocationMatches(data.nodes[i], location)) =>
         /\ filteredData.nodes = <<>>
         /\ filteredData.links = <<>>
         /\ filteredData.metadata.totalNodes = 0
         /\ filteredData.metadata.totalLinks = 0
    /\ filteredData = FilterDataForCurrentPage(data, location)

\* A graph with nodes and links was loaded, and the router has moved to a pathname
\* none of its nodes matches: the graph shown is empty.
C18_Witness ==
  /\ FilterSettled
  /\ navigations > 0
  /\ data.metadata.totalNodes > 0
  /\ data.metadata.totalLinks > 0
  /\ \A i \in 1..Len(data.nodes) : ~LocationMatches(data.nodes[i], location)
  /\ filteredData.nodes = <<>>
  /\ filteredData.metadata.totalNodes = 0

\* Every candidate URL has been fetched and none gave a parsed JSON value.
AllFetchesFailed ==
  /\ Len(fetched) = Len(PossiblePaths)
  /\ \A i \in 1..Len(fetched) : fetched[i].kind \in FetchFailures

\* C19: in both components loadGraphData never ends in a rejection, and once every
\* candidate URL has failed (fetch rejected, response not ok, or JSON unparseable)
\* it has settled with data the graph without nodes and links and counts 0, the
\* error message set, loading off, and the render on its error branch.
C19_FetchFailureFallsBack ==
  /\ loadPc \in {"mount", "fetch", "settled"}
  /\ AllFetchesFailed =>
       /\ loadPc = "settled"
       /\ data # NoData
       /\ data.nodes = <<>>
       /\ data.links = <<>>
       /\ data.metadata.totalNodes = 0
       /\ data.metadata.totalLinks = 0
       /\ error # NoError
       /\ ~loading
       /\ RenderBranch = "error"

\* The first URL answered with a response that was not ok and the fetch of the
\* second was rejected; the component shows its error notice.
C19_Witness ==
  /\ AllFetchesFailed
  /\ fetched[1].kind = "not ok"
  /\ fetched[2].kind = "fetch rejects"
  /\ loadPc = "settled"
  /\ data = FallbackData
  /\ RenderBranch = "error"

C21_NodesBeforeEdges ==
  [][/\ links' # links =>
          /\ patIdx > Len(searchPatterns)
          /\ fileIdx > Len(allFiles)
          /\ nodes' = nodes
          /\ fileMap' = fileMap
     /\ links # <<>> => (nodes' = nodes /\ fileMap' = fileMap)]_vars

\* Edges of both kinds are in place, over a node list of several nodes that was
\* complete before the first of them.
C21_Witness ==
  /\ pc = "refs"
  /\ run = 1
  /\ Len(nodes) >= 2
  /\ fileIdx > Len(allFiles)
  /\ lastMatch = "added"
  /\ \E i \in 1..Len(links) : IsParentChild(links[i])
  /\ \E i \in 1..Len(links) : IsReference(links[i])

\* The second call with the arguments of the first is the one that runs.
SecondCallRuns == run = 2 /\ other.call = "B"

\* C22: the call that shared the process with another call, suspended and resumed
\* at its awaits in any order, returns the node sequence, the edge sequence and the
\* counts that the call with the same arguments returned when it ran alone; and so
\* does the other call when its site and its file system are the same.
C22_InterleavedCallsIndependent ==
  /\ (SecondCallRuns /\ pc = "done") =>
       /\ result.returned
       /\ result.nodes = firstResult.nodes
       /\ result.links = firstResult.links
       /\ result.metadata = firstResult.metadata
  /\ (run = 2 /\ other.call = "A" /\ pc = "done"
        /\ siteFiles = other.siteFiles /\ environment = other.environment) =>
       /\ result.returned
       /\ result.nodes = firstResult.nodes
       /\ result.links = firstResult.links

\* Both calls have returned, on different sites, each with edges of its own, and
\* the one that ran between the steps of the other was suspended after it had
\* inserted edges.
C22_Witness ==
  /\ SecondCallRuns
  /\ pc = "done"
  /\ other.pc = "done"
  /\ siteFiles # other.siteFiles
  /\ Len(result.links) >= 2
  /\ Len(other.result.links) >= 1
  /\ result.links # other.result.links
  /\ result.links = firstResult.links

(***************************************************************************)
(* Further properties of the generated graph.                              *)
(***************************************************************************)
\* No pattern of the options matches a file of the site that is not excluded.
NothingMatches ==
  \A k \in 1..Len(SearchPatterns(options)), i \in 1..Len(siteFiles) :
    Glob(<<siteFiles[i]>>, SearchPatterns(options)[k], options.excludePatterns) = <<>>

\* C23: when no file matches any pattern, the call stays on its program points,
\* builds no node and no edge, and the graph it returns has no nodes, no links
\* and both counts 0; so it is with all three roots off and no include pattern.
C23_EmptyDiscovery ==
  NothingMatches =>
    /\ pc \in {"start", "glob", "refs", "done"}
    /\ nodes = <<>>
    /\ links = <<>>
    /\ failures = 0
    /\ pc = "done" =>
         /\ result.returned
         /\ result.nodes = <<>>
         /\ result.links = <<>>
         /\ result.metadata.totalNodes = 0
         /\ result.metadata.totalLinks = 0

\* A site with files, built with the three roots off and no include pattern, has
\* returned its graph.
C23_Witness ==
  /\ pc = "done"
  /\ result.returned
  /\ siteFiles # <<>>
  /\ SearchPatterns(options) = <<>>
  /\ NothingMatches
  /\ result.nodes = <<>>

(***************************************************************************)
(* Properties of the clicks on the drawn graph.                            *)
(***************************************************************************)
\* The navigation to the page of node d has been made: onNodeClick(d) when the
\* prop is given, window.location.href = d.path when it is not.
NavigatedTo(d) ==
  \E i \in 1..Len(effects) :
    /\ effects[i].node = d
    /\ effects[i].call = IF onNodeClick = "given" THEN "onNodeClick" ELSE "location.href"

\* The timeout that the k-th click of the history set.
TimerOfClick(k) ==
  1 + Cardinality({i \in 1..(k - 1) : events[i].type = "click"})

\* C24: every click on a node whose timeout is no longer pending has led to the
\* navigation to that node's page.
C24_ClickNavigates ==
  \A k \in 1..Len(events) :
    (/\ events[k].type = "click"
     /\ \A t \in timers : t.id # TimerOfClick(k))
      => NavigatedTo(events[k].node)

\* C26: at most one single-click timeout is pending at any time, and right after
\* a double click on a node none is pending, so that handleSingleClick cannot
\* run for the clicks of that double click.
C26_DoubleClickCancelsTimer ==
  /\ Cardinality(timers) <= 1
  /\ (events # <<>> /\ Last(events).type = "dblclick") => timers = {}

(***************************************************************************)
(* Structural edges against reference edges.                               *)
(***************************************************************************)
\* The parent-child edges of ls, in order.
ParentChildEdges(ls) == SelectSeq(ls, IsParentChild)

\* ls joins a and b by a parent-child edge, in one direction or the other.
ParentChildJoined(ls, a, b) == HasParentChildEdge(ls, a, b) \/ HasParentChildEdge(ls, b, a)

\* C25: no link is there before the structural pass; in the returned graph the
\* parent-child edges are those the pass derives from the nodes alone, whatever
\* reference edges the bodies have added, and every node whose directory has its
\* hub file among the other nodes is joined to it by a parent-child edge.
C25_ReferencesNeverSuppressStructural ==
  /\ pc \in {"start", "glob"} => links = <<>>
  /\ result.returned =>
       /\ ParentChildEdges(result.links) =
            GenerateParentChildLinks(result.nodes, <<>>, options.maxDepth)
       /\ \A n \in NodeIds(result.nodes) :
            (/\ Len(Split(n, SLASH)) > 1
             /\ SameDirHubOf(n) # n
             /\ SameDirHubOf(n) \in NodeIds(result.nodes))
              => ParentChildJoined(result.links, SameDirHubOf(n), n)

\* The returned graph joins a hub and a file of its directory by a parent-child
\* edge and by a reference edge from the file back to the hub.
C25_Witness ==
  /\ pc = "done"
  /\ result.returned
  /\ \E i, j \in 1..Len(result.links) :
       /\ IsParentChild(result.links[i])
       /\ IsReference(result.links[j])
       /\ result.links[j].source = result.links[i].target
       /\ result.links[j].target = result.links[i].source
       /\ result.links[i].source = SameDirHubOf(result.links[i].target)

\* C27: at every point of a call, and in the graph it returns, the source and the
\* target of every edge are ids of nodes of the node list.
C27_NoDanglingEndpoints ==
  /\ \A i \in 1..Len(links) :
       links[i].source \in NodeIds(nodes) /\ links[i].target \in NodeIds(nodes)
  /\ \A i \in 1..Len(result.links) :
       /\ result.links[i].source \in NodeIds(result.nodes)
       /\ result.links[i].target \in NodeIds(result.nodes)

\* A graph with edges of both types was returned for a site one of whose files
\* is not a node of it.
C27_Witness ==
  /\ pc = "done"
  /\ result.returned
  /\ \E i \in 1..Len(siteFiles) : siteFiles[i] \notin NodeIds(result.nodes)
  /\ \E i \in 1..Len(result.links) : IsParentChild(result.links[i])
  /\ \E i \in 1..Len(result.links) : IsReference(result.links[i])

(***************************************************************************)
(* The current node of the embedded graph.                                 *)
(***************************************************************************)
\* The filtered graph is the neighbourhood of node c of the full graph.
IsNeighbourhoodOf(c) ==
  LET wanted == {c.id} \cup NeighboursOf(data.links, c.id)
  IN /\ filteredData.nodes = SelectSeq(data.nodes, LAMBDA n : n.id \in wanted)
     /\ filteredData.links =
          SelectSeq(data.links, LAMBDA l : l.source \in wanted /\ l.target \in wanted)

\* C28: when a node of the full graph has the pathname as its path, the filtered
\* graph is the neighbourhood of such a node, wherever it stands in the node list
\* and whatever the other nodes are.
C28_ExactPathWins ==
  (FilterSettled /\ \E i \in 1..Len(data.nodes) : data.nodes[i].path = location) =>
    \E i \in 1..Len(data.nodes) :
      data.nodes[i].path = location /\ IsNeighbourhoodOf(data.nodes[i])

(***************************************************************************)
(* URL paths of the nodes.                                                 *)
(***************************************************************************)
\* C29: every node created from a discovered file has a URL path that is not
\* empty and begins with a slash, pages matched outside src/pages and index
\* files at a content root included.
C29_UrlPathIsSiteRelative ==
  \A i \in 1..Len(nodes) :
    nodes[i].path # <<>> /\ Head(nodes[i].path) = SLASH

(***************************************************************************)
(* The loader comes to an end.                                             *)
(***************************************************************************)
\* A candidate URL yielded data: its response was ok and its JSON parsed to a
\* value that is not null (line 158 tests !graphData).
YieldedData ==
  \E i \in 1..Len(fetched) : fetched[i].kind = "json" /\ fetched[i].json # NoData

\* loadGraphData has left its loop: a response was parsed or the last URL failed.
LoopLeft ==
  /\ fetched # <<>>
  /\ \/ fetched[Len(fetched)].kind = "json"
     \/ Len(fetched) = Len(PossiblePaths)

\* The candidate URLs are fetched in order, at most once each, and none after a
\* response that was parsed; what loadGraphData has set follows from the fetches.
LoaderStepsInOrder ==
  /\ Len(fetched) <= Len(PossiblePaths)
  /\ loadPc = "fetch" => pathIdx = Len(fetched) + 1
  /\ \A i \in 1..Len(fetched) : fetched[i].kind = "json" => i = Len(fetched)
  /\ (loadPc = "settled") <=> LoopLeft
  /\ loadPc # "settled" => (loading /\ data = NoData /\ error = NoError)
  /\ loadPc = "settled" =>
       /\ ~loading
       /\ data # NoData
       /\ (error # NoError) <=> ~YieldedData
       /\ YieldedData => data = fetched[Len(fetched)].json

\* C30: the loader finishes. The candidate URLs are fetched in order and none
\* after the first ok response whose JSON parsed; in every behaviour loading
\* becomes false for good with data not null; and the error is set exactly when
\* no candidate URL yielded data.
C30_LoaderFinishes ==
  /\ []LoaderStepsInOrder
  /\ <>[](loadPc = "settled" /\ ~loading /\ data # NoData)

C30_Witness ==
  /\ Len(fetched) = 2
  /\ fetched[1].kind = "json rejects"
  /\ fetched[2].kind = "json"
  /\ fetched[2].json = G_chain
  /\ loadPc = "settled"
  /\ ~loading
  /\ data = G_chain
  /\ error = NoError


====
